---- MODULE Spec2Model ----
(***************************************************************************)
(* A model of the signal-processing core of the FSAE signal analyzer       *)
(* (src/processing/signal_processing.py, class SignalProcessor) and of the *)
(* library routines it delegates to (numpy.fft, scipy.signal).             *)
(*                                                                         *)
(* Numbers.  Samples, rates and cutoffs are integers.  A quotient the code *)
(* computes in floating point is kept exact as a pair <<n, d>> (n/d, d # 0)*)
(* and compared by cross multiplication.  A magnitude |X| is a square root *)
(* and is kept exact by its square: the record [sq |-> p] stands for       *)
(* sqrt(p).  A spectral power p is an element <<u, v>> = u + v*sqrt(3) of  *)
(* Z[sqrt 3], which holds every |X[k]|^2 of an integer buffer of length    *)
(* 1, 2, 3, 4, 6 or 12 exactly.                                            *)
(***************************************************************************)
EXTENDS Integers, Sequences, FiniteSets, TLC

VARIABLES
    data,   \* the caller's sample buffer (a sequence of samples)
    fs,     \* the caller's sampling frequency
    b,      \* the caller's numerator coefficients
    a,      \* the caller's denominator coefficients
    input,  \* the other arguments the caller passes (cutoffs, order, ...)
    call,   \* the last call of a SignalProcessor operation and its outcome
    prev,   \* the last apply_filter call: its arguments and outcome
    gui     \* the Filter tab: its stored results, plot button and last run

vars == <<data, fs, b, a, input, call, prev, gui>>

----------------------------------------------------------------------------
(* Bounds of the model.                                                    *)

MaxLen == 3        \* every buffer over Samples up to this length is an input
MaxOrder == 2      \* filter orders -1 .. MaxOrder
MaxCutoff == 4     \* cutoffs -1 .. MaxCutoff
MaxSignalLen == 13 \* buffers handed to apply_filter have 0 .. MaxSignalLen samples
MaxTaps == 4       \* coefficient sequences have 1 .. MaxTaps entries
MaxDistance == 4   \* peak distances 0 .. MaxDistance
MaxHeight == 3     \* peak magnitudes 0 .. MaxHeight in the spectra handed to find_peaks
MaxWindowed == 5   \* buffers handed to compute_rms_windowed have 0 .. MaxWindowed samples
MaxBins == 3       \* spectra handed to find_resonance have 0 .. MaxBins bins
MaxRuns == 3       \* Apply Filter is pressed up to MaxRuns times in a session
MaxFormulas == 3   \* a sheet has 1 .. MaxFormulas formulas
MaxRefs == 2       \* a formula refers to 0 .. MaxRefs cells
RecursionLimit == 6 \* nested Python calls beyond this raise RecursionError

----------------------------------------------------------------------------
(* Helpers on sequences and exact numbers.                                 *)

Range(s) == {s[i] : i \in DOMAIN s}

RECURSIVE SeqsOfLen(_, _)
SeqsOfLen(S, n) ==
    IF n = 0 THEN {<<>>}
    ELSE {Append(s, x) : s \in SeqsOfLen(S, n - 1), x \in S}

Reverse(s) == [i \in 1..Len(s) |-> s[Len(s) + 1 - i]]

Abs(x) == IF x < 0 THEN -x ELSE x
Max(x, y) == IF x >= y THEN x ELSE y

RECURSIVE SumTo(_, _)
\* s[1] + ... + s[n]
SumTo(s, n) == IF n = 0 THEN 0 ELSE SumTo(s, n - 1) + s[n]

\* Exact quotients n/d as <<n, d>>, d # 0.
RatGt0(r) == r[1] * r[2] > 0
RatLe0(r) == r[1] * r[2] <= 0
\* r >= 1: n/d >= 1.
RatGe1(r) == IF r[2] > 0 THEN r[1] >= r[2] ELSE r[1] <= r[2]
RatLt(r, s) == IF r[2] * s[2] > 0 THEN r[1] * s[2] < s[1] * r[2]
               ELSE r[1] * s[2] > s[1] * r[2]
RatEq(r, s) == r[1] * s[2] = s[1] * r[2]
RatGe(r, s) == ~RatLt(r, s)

\* The difference q - p of two quotients.
RatMinus(q, p) == <<q[1] * p[2] - p[1] * q[2], q[2] * p[2]>>

----------------------------------------------------------------------------
(* Outcomes of a call: a value returned, or an exception raised.           *)

Ok(v) == [status |-> "ok", error |-> "", result |-> v]
Raise(e) == [status |-> "error", error |-> e, result |-> <<>>]

NoPrev ==
    [valid |-> FALSE, repeated |-> FALSE, args |-> <<>>, status |-> "none",
     result |-> <<>>]

NoCall == [op |-> "none", args |-> <<>>, status |-> "none", error |-> "",
           result |-> <<>>]

Called(name, args, outcome) ==
    [op |-> name, args |-> args, status |-> outcome.status,
     error |-> outcome.error, result |-> outcome.result]

----------------------------------------------------------------------------
(* Filter Designer: design_filter and scipy.signal.iirfilter.              *)

FilterTypes == {"lowpass", "highpass", "bandpass", "bandstop"}
BandTypes == {"bandpass", "bandstop"}
Designs == {"butter", "cheby1", "bessel", "ellip"}

\* The default passband ripple of design_filter, in tenths of a dB.
DefaultRipple == 5

\* Optional[float]: <<>> is None, <<v>> is the value v.
None == <<>>
Some(v) == <<v>>

\* iirfilter accepting the closed interval 0 <= Wn <= 1.
IirFilterClosed(N, Wn, rp, btype, ftype) ==
    IF btype \notin FilterTypes
      THEN Raise("ValueError: invalid bandtype")
    ELSE IF rp # None /\ rp[1] < 0
      THEN Raise("ValueError: passband ripple (rp) must be positive")
    ELSE IF N < 0
      THEN Raise("ValueError: Filter order must be a nonnegative integer")
    ELSE IF \E i \in DOMAIN Wn :
              Wn[i][1] * Wn[i][2] < 0 \/ (RatGe1(Wn[i]) /\ Wn[i][1] # Wn[i][2])
      THEN Raise("ValueError: Digital filter critical frequencies must be 0 <= Wn <= 1")
    ELSE IF btype \in {"lowpass", "highpass"} /\ Len(Wn) # 1
      THEN Raise("ValueError: Must specify a single critical frequency Wn")
    ELSE IF btype \in BandTypes /\ Len(Wn) < 2
      THEN Raise("ValueError: Wn must specify start and stop frequencies")
    ELSE IF btype \in BandTypes /\ RatGe(Wn[1], Wn[2])
      THEN Raise("ValueError: Wn[0] must be less than Wn[1]")
    ELSE Ok([ftype |-> ftype, btype |-> btype, order |-> N, Wn |-> Wn,
             nb |-> (IF btype \in BandTypes THEN 2 * N ELSE N) + 1,
             na |-> (IF btype \in BandTypes THEN 2 * N ELSE N) + 1])

\* scipy.signal.iirfilter(N, Wn, rp, btype, ftype) with analog=False,
\* output='ba', fs=None.  Wn is a sequence of one or two exact quotients.
\* The coefficients are irrational in general: the result records what
\* determines them, and the lengths of b and a.
IirFilter(N, Wn, rp, btype, ftype) ==
    IF btype \notin FilterTypes
      THEN Raise("ValueError: invalid bandtype")
    ELSE IF rp # None /\ rp[1] < 0
      THEN Raise("ValueError: passband ripple (rp) must be positive")
    ELSE IF N < 0
      THEN Raise("ValueError: Filter order must be a nonnegative integer")
    ELSE IF \E i \in DOMAIN Wn : RatLe0(Wn[i]) \/ RatGe1(Wn[i])
      THEN Raise("ValueError: Digital filter critical frequencies must be 0 < Wn < 1")
    ELSE IF btype \in {"lowpass", "highpass"} /\ Len(Wn) # 1
      THEN Raise("ValueError: Must specify a single critical frequency Wn")
    ELSE IF btype \in BandTypes /\ Len(Wn) < 2
      THEN Raise("ValueError: Wn must specify start and stop frequencies")
    ELSE IF btype \in BandTypes /\ RatGe(Wn[1], Wn[2])
      THEN Raise("ValueError: Wn[0] must be less than Wn[1]")
    ELSE Ok([ftype |-> ftype, btype |-> btype, order |-> N, Wn |-> Wn,
             nb |-> (IF btype \in BandTypes THEN 2 * N ELSE N) + 1,
             na |-> (IF btype \in BandTypes THEN 2 * N ELSE N) + 1])

\* A missing high cutoff replaced by the Nyquist-side neighbour fc + 1.
EffectiveHighPlusOne(fc, fc_high) ==
    IF fc_high = None THEN fc + 1 ELSE fc_high[1]

\* The high cutoff design_filter works with: the one supplied, or fc * 2.
EffectiveHigh(fc, fc_high) ==
    IF fc_high = None THEN fc * 2 ELSE fc_high[1]

\* Python's x / y for y = n/d: ZeroDivisionError when y is zero.
\* nyq = fs / 2 is <<fs, 2>>; fc / nyq is <<2 * fc, fs>>.
NormalizedCutoffs(fs_, fc, filter_type, fc_high) ==
    IF filter_type \in BandTypes
      THEN << <<2 * fc, fs_>>, <<2 * EffectiveHigh(fc, fc_high), fs_>> >>
      ELSE << <<2 * fc, fs_>> >>

\* design_filter falling back to Butterworth for an unknown family.
design_filter_fallback(fs_, fc, order, filter_type, design, fc_high, ripple) ==
    IF fs_ = 0
      THEN Raise("ZeroDivisionError: float division by zero")
    ELSE LET Wn == NormalizedCutoffs(fs_, fc, filter_type, fc_high)
         IN  IF design = "cheby1"
               THEN IirFilter(order, Wn, Some(ripple), filter_type, "cheby1")
             ELSE IF design = "bessel"
               THEN IirFilter(order, Wn, None, filter_type, "bessel")
             ELSE IirFilter(order, Wn, None, filter_type, "butter")

design_filter(fs_, fc, order, filter_type, design, fc_high, ripple) ==
    IF fs_ = 0
      THEN Raise("ZeroDivisionError: float division by zero")
    ELSE LET Wn == NormalizedCutoffs(fs_, fc, filter_type, fc_high)
         IN  IF design = "butter"
               THEN IirFilter(order, Wn, None, filter_type, "butter")
             ELSE IF design = "cheby1"
               THEN IirFilter(order, Wn, Some(ripple), filter_type, "cheby1")
             ELSE IF design = "bessel"
               THEN IirFilter(order, Wn, None, filter_type, "bessel")
             ELSE Raise("ValueError: Unknown filter design")

----------------------------------------------------------------------------
(* Exact arithmetic in Z[sqrt 3]: <<u, v>> is u + v*sqrt(3).               *)

SZero == <<0, 0>>
SInt(n) == <<n, 0>>
SAdd(x, y) == <<x[1] + y[1], x[2] + y[2]>>
SNeg(x) == <<-x[1], -x[2]>>
SScale(n, x) == <<n * x[1], n * x[2]>>
SMul(x, y) == <<x[1] * y[1] + 3 * x[2] * y[2], x[1] * y[2] + x[2] * y[1]>>
\* The sign of u + v*sqrt(3): -1, 0 or 1.
SSign(x) ==
    LET u == x[1]
        v == x[2]
    IN  IF u = 0 /\ v = 0 THEN 0
        ELSE IF u >= 0 /\ v >= 0 THEN 1
        ELSE IF u <= 0 /\ v <= 0 THEN -1
        ELSE IF u > 0 THEN (IF u * u > 3 * v * v THEN 1 ELSE -1)
        ELSE (IF 3 * v * v > u * u THEN 1 ELSE -1)
SLt(x, y) == SSign(SAdd(y, SNeg(x))) = 1
SLe(x, y) == SSign(SAdd(y, SNeg(x))) >= 0

RECURSIVE SSumTo(_, _)
\* f[1] + ... + f[n] for a sequence (or function on 1..n) of surds.
SSumTo(f, n) == IF n = 0 THEN SZero ELSE SAdd(SSumTo(f, n - 1), f[n])

----------------------------------------------------------------------------
(* Spectral Analyzer: numpy.fft.fft, numpy.fft.fftfreq, perform_fft.       *)

\* The buffer lengths whose DFT lies in Z[sqrt 3].
ExactLens == {1, 2, 3, 4, 6, 12}

\* 2*cos(m * 30 degrees) and 2*sin(m * 30 degrees), m in 0..11.
TwoCos12(m) ==
    CASE m = 0 -> <<2, 0>>  [] m = 1 -> <<0, 1>>   [] m = 2 -> <<1, 0>>
      [] m = 3 -> <<0, 0>>  [] m = 4 -> <<-1, 0>>  [] m = 5 -> <<0, -1>>
      [] m = 6 -> <<-2, 0>> [] m = 7 -> <<0, -1>>  [] m = 8 -> <<-1, 0>>
      [] m = 9 -> <<0, 0>>  [] m = 10 -> <<1, 0>>  [] m = 11 -> <<0, 1>>
TwoSin12(m) ==
    CASE m = 0 -> <<0, 0>>  [] m = 1 -> <<1, 0>>   [] m = 2 -> <<0, 1>>
      [] m = 3 -> <<2, 0>>  [] m = 4 -> <<0, 1>>   [] m = 5 -> <<1, 0>>
      [] m = 6 -> <<0, 0>>  [] m = 7 -> <<-1, 0>>  [] m = 8 -> <<0, -1>>
      [] m = 9 -> <<-2, 0>> [] m = 10 -> <<0, -1>> [] m = 11 -> <<-1, 0>>

\* The angle 2*pi*t/N as a multiple of 30 degrees (N in ExactLens).
Angle12(N, t) == (t % N) * (12 \div N)

\* numpy.fft.fft(x)[j], j = 0..N-1: X[j] = sum_m x[m] * exp(-2*pi*i*j*m/N),
\* kept doubled as <<2*Re, 2*Im>>.
FftBin(x, j) ==
    LET N == Len(x)
        re == [m \in 1..N |-> SScale(x[m], TwoCos12(Angle12(N, j * (m - 1))))]
        im == [m \in 1..N |-> SScale(-x[m], TwoSin12(Angle12(N, j * (m - 1))))]
    IN  <<SSumTo(re, N), SSumTo(im, N)>>

Fft(x) == [i \in 1..Len(x) |-> FftBin(x, i - 1)]

\* The real part taken for the magnitude.
ComplexAbsReal(z) ==
    LET s == SMul(z[1], z[1])
    IN  [sq |-> <<s[1] \div 4, s[2] \div 4>>]

\* numpy.abs of a complex value kept doubled: sqrt(Re^2 + Im^2), as its
\* square (Re2^2 + Im2^2)/4.  Both components of the sum are multiples of 4.
ComplexAbs(z) ==
    LET s == SAdd(SMul(z[1], z[1]), SMul(z[2], z[2]))
    IN  [sq |-> <<s[1] \div 4, s[2] \div 4>>]

\* magnitude ** 2 applied twice.
SquareTwice(m) == SMul(m.sq, m.sq)

\* magnitude ** 2
Square(m) == m.sq

\* numpy.fft.fftfreq(n, d)[i], i = 0..n-1, in units of 1/(n*d): the integers
\* 0, 1, ..., (n-1)//2, -(n//2), ..., -1.
FftFreqIndex(n, i) == IF i < ((n - 1) \div 2) + 1 THEN i ELSE i - n

\* numpy.fft.fftfreq(N, dt) with dt = 1/fs: k * fs / N.
FftFreq(N, fs_) == [i \in 1..N |-> <<FftFreqIndex(N, i - 1) * fs_, N>>]

\* frequencies >= 0: the DC bin kept.
PosIdxWithDc(frequencies) ==
    SelectSeq([i \in 1..Len(frequencies) |-> i],
              LAMBDA i : frequencies[i][1] * frequencies[i][2] >= 0)

\* frequencies > 0, as the sequence of the (1-based) indices selected.
PosIdx(frequencies) ==
    SelectSeq([i \in 1..Len(frequencies) |-> i],
              LAMBDA i : RatGt0(frequencies[i]))

perform_fft(data_, fs_) ==
    IF fs_ = 0
      THEN Raise("ZeroDivisionError: division by zero")
    ELSE IF Len(data_) = 0
      THEN Raise("ValueError: Invalid number of FFT data points (0) specified.")
    ELSE LET N == Len(data_)
             fft_result == Fft(data_)
             frequencies == FftFreq(N, fs_)
             pos_idx == PosIdx(frequencies)
             freq_pos == [i \in 1..Len(pos_idx) |-> frequencies[pos_idx[i]]]
             magnitude == [i \in 1..Len(pos_idx) |->
                             ComplexAbs(fft_result[pos_idx[i]])]
             psd == [i \in 1..Len(magnitude) |-> Square(magnitude[i])]
         IN  Ok([frequencies |-> freq_pos, magnitude |-> magnitude,
                 psd |-> psd])

----------------------------------------------------------------------------
(* find_resonance.                                                         *)

RECURSIVE ArgMaxLastFrom(_, _, _)
\* An argmax that lets a later equal bin replace the best so far.
ArgMaxLastFrom(psd, i, best) ==
    IF i > Len(psd) THEN best
    ELSE ArgMaxLastFrom(psd, i + 1, IF SLe(psd[best], psd[i]) THEN i ELSE best)

RECURSIVE ArgMaxFrom(_, _, _)
\* numpy.argmax scanning from index i with the best index so far: a later
\* bin replaces it only when strictly larger, so the first maximum wins.
ArgMaxFrom(psd, i, best) ==
    IF i > Len(psd) THEN best
    ELSE ArgMaxFrom(psd, i + 1, IF SLt(psd[best], psd[i]) THEN i ELSE best)

\* floor(n/d) for d > 0.
FloorDiv(n, d) == n \div d

\* The quotient n/d truncated toward minus infinity instead of rounded.
RoundTowardFloor(n, d) ==
    IF d < 0 THEN FloorDiv(-n, -d) ELSE FloorDiv(n, d)

\* Python's round(n/d): to the nearest integer, a tie to the even one.
RoundHalfEven(n, d) ==
    LET nn == IF d < 0 THEN -n ELSE n
        dd == Abs(d)
        lo == FloorDiv(nn, dd)
        twice == 2 * (nn - lo * dd)
    IN  IF twice < dd THEN lo
        ELSE IF twice > dd THEN lo + 1
        ELSE IF lo % 2 = 0 THEN lo ELSE lo + 1

\* find_resonance answering an empty psd with a zero resonance.
find_resonance_zero_on_empty(frequencies, psd, round_to) ==
    IF Len(psd) = 0
      THEN Ok([exact |-> <<0, 1>>, rounded |-> 0])
      ELSE Raise("IndexError: index out of bounds")

\* frequencies: a sequence of quotients; psd: a sequence of powers.
find_resonance(frequencies, psd, round_to) ==
    IF Len(psd) = 0
      THEN Raise("ValueError: attempt to get argmax of an empty sequence")
    ELSE LET peak_idx == ArgMaxFrom(psd, 2, 1)
         IN  IF peak_idx > Len(frequencies)
               THEN Raise("IndexError: index out of bounds")
             ELSE IF round_to = 0
               THEN Raise("ZeroDivisionError: division by zero")
             ELSE LET resonance_freq == frequencies[peak_idx]
                      resonance_rounded ==
                          RoundHalfEven(resonance_freq[1],
                                        resonance_freq[2] * round_to) * round_to
                  IN  Ok([exact |-> resonance_freq,
                          rounded |-> resonance_rounded])

----------------------------------------------------------------------------
(* find_top_peaks.                                                         *)

\* The first n elements taken where the last n are meant.
SliceLeading(s, n) ==
    SubSeq(s, 1, IF n > Len(s) THEN Len(s) ELSE IF n < 0 THEN 0 ELSE n)

\* Python's s[-n:] and s[:n].
SliceLast(s, n) ==
    LET L == Len(s)
        start == IF n > 0 THEN Max(L - n, 0)
                 ELSE IF -n > L THEN L ELSE -n
    IN  SubSeq(s, start + 1, L)
SliceFirst(s, n) ==
    LET L == Len(s)
        stop == IF n >= 0 THEN (IF n > L THEN L ELSE n) ELSE Max(L + n, 0)
    IN  SubSeq(s, 1, stop)

\* The permutations of 1..n, as sequences.
IndexOrders(n) ==
    {f \in [1..n -> 1..n] : \A i, j \in 1..n : i # j => f[i] # f[j]}

\* numpy.argsort(keys) with the default kind ('quicksort', which is not a
\* stable sort): an index order that sorts the keys ascending; the order
\* of equal keys is the implementation's.  Keys are powers (surds).
ArgSorts(keys) ==
    {f \in IndexOrders(Len(keys)) :
        \A i \in 1..(Len(keys) - 1) : SLe(keys[f[i]], keys[f[i + 1]])}

\* find_top_peaks given the index order argsort returned.
find_top_peaks(frequencies, psd, n_peaks, sorted) ==
    LET top_idx == Reverse(SliceLast(sorted, n_peaks))
    IN  IF \E i \in DOMAIN top_idx : top_idx[i] > Len(frequencies)
          THEN Raise("IndexError: index out of bounds")
          ELSE Ok([i \in DOMAIN top_idx |->
                     <<frequencies[top_idx[i]], psd[top_idx[i]]>>])

----------------------------------------------------------------------------
(* Statistics and windowed RMS.                                            *)
(* A float that is a square root of a quotient is [sq |-> <<n, d>>]; the   *)
(* float NaN is [nan |-> TRUE].                                            *)

NaN == [nan |-> TRUE]
SqrtOf(n, d) == [sq |-> <<n, d>>]

RECURSIVE MinTo(_, _)
MinTo(s, n) == IF n = 1 THEN s[1]
               ELSE LET m == MinTo(s, n - 1) IN IF s[n] < m THEN s[n] ELSE m
RECURSIVE MaxTo(_, _)
MaxTo(s, n) == IF n = 1 THEN s[1]
               ELSE LET m == MaxTo(s, n - 1) IN IF s[n] > m THEN s[n] ELSE m

\* data ** 2: a new array.
Squared(d) == [i \in DOMAIN d |-> d[i] * d[i]]

\* The square taken in place (data **= 2).
OperandSquaredInPlace(d) == Squared(d)

\* The operand of data ** 2 after the operation: left as it is.
OperandAfterSquare(d) == d

\* np.sqrt(np.mean(x ** 2)); NaN (with a RuntimeWarning) for an empty x.
Rms(x) == IF Len(x) = 0 THEN NaN
          ELSE SqrtOf(SumTo(Squared(x), Len(x)), Len(x))

\* The variance with the denominator N - 1 (ddof = 1).
SampleVariance(data_) ==
    LET N == Len(data_)
        sum == SumTo(data_, N)
        sumsq == SumTo(Squared(data_), N)
    IN  <<N * sumsq - sum * sum, N * (N - 1)>>

\* The variance np.std takes the root of (ddof = 0): mean(x^2) - mean(x)^2
\* as the quotient (N * sum(x^2) - sum(x)^2) / N^2.
PopulationVariance(data_) ==
    LET N == Len(data_)
        sum == SumTo(data_, N)
        sumsq == SumTo(Squared(data_), N)
    IN  <<N * sumsq - sum * sum, N * N>>

\* A division that answers 0/0 with zero.
FloatDivideZero(peak, N, sumsq) ==
    IF sumsq = 0 THEN SqrtOf(0, 1) ELSE SqrtOf(peak * peak * N, sumsq)

\* np.max(np.abs(data)) / np.sqrt(np.mean(data ** 2)) on numpy floats:
\* peak / sqrt(sumsq / N), kept as the root of peak^2 * N / sumsq.  With
\* sumsq = 0 the peak is 0 too and numpy's 0.0 / 0.0 is NaN (with a
\* RuntimeWarning), not an exception.
FloatDivide(peak, N, sumsq) ==
    IF sumsq = 0 THEN NaN ELSE SqrtOf(peak * peak * N, sumsq)

compute_statistics(data_, fs_) ==
    IF fs_ = 0
      THEN Raise("ZeroDivisionError: division by zero")
    ELSE IF Len(data_) = 0
      THEN Raise("ValueError: zero-size array to reduction operation minimum which has no identity")
    ELSE LET N == Len(data_)
             sum == SumTo(data_, N)
             sumsq == SumTo(Squared(data_), N)
             peak == MaxTo([i \in 1..N |-> Abs(data_[i])], N)
         IN  Ok([points |-> N,
                 duration |-> <<N, fs_>>,
                 mean |-> <<sum, N>>,
                 std |-> [sq |-> PopulationVariance(data_)],
                 rms |-> Rms(data_),
                 min |-> MinTo(data_, N),
                 max |-> MaxTo(data_, N),
                 peak_to_peak |-> MaxTo(data_, N) - MinTo(data_, N),
                 crest_factor |-> FloatDivide(peak, N, sumsq)])

\* Python's int(n/d): truncation toward zero.
IntTrunc(n, d) ==
    LET q == Abs(n) \div Abs(d)
    IN  IF (n < 0) # (d < 0) THEN -q ELSE q

\* The quotient rounded up, counting a last, partial window.
PyCeilDiv(x, y) == IF y > 0 THEN (x + y - 1) \div y ELSE (-x) \div (-y)

\* Python's x // y for integers, y # 0: the floor of the quotient.
PyFloorDiv(x, y) == IF y > 0 THEN x \div y ELSE (-x) \div (-y)

\* Python's s[lo:hi] for 0 <= lo <= hi: clipped to the length of s.
PySlice(s, lo, hi) ==
    SubSeq(s, lo + 1, IF hi > Len(s) THEN Len(s) ELSE hi)

\* Only the samples the windows cover.
WindowedSamples(data_, window_size, n_windows) ==
    SubSeq(data_, 1, Max(n_windows, 0) * window_size)

\* The operand of overall_rms (line 262): data, whatever the windows are.
OverallOperand(data_, window_size, n_windows) == data_

\* The time at which window i begins.
WindowStart(i, window_size, fs_) == <<i * window_size, fs_>>

\* (i + 0.5) * window_size / fs (line 260), as a quotient.
WindowMidpoint(i, window_size, fs_) == <<(2 * i + 1) * window_size, 2 * fs_>>

\* window_seconds is the quotient ws[1]/ws[2].
compute_rms_windowed(data_, fs_, ws) ==
    LET window_size == IntTrunc(fs_ * ws[1], ws[2])
    IN  IF window_size = 0
          THEN Raise("ZeroDivisionError: integer division or modulo by zero")
        ELSE LET n_windows == PyFloorDiv(Len(data_), window_size)
                 count == Max(n_windows, 0)
                 window(i) == PySlice(data_, i * window_size,
                                      (i + 1) * window_size)
             IN  Ok([times |-> [k \in 1..count |->
                                  WindowMidpoint(k - 1, window_size, fs_)],
                     rms_values |-> [k \in 1..count |-> Rms(window(k - 1))],
                     overall_rms |-> Rms(OverallOperand(data_, window_size,
                                                        n_windows))])

----------------------------------------------------------------------------
(* detect_peaks and scipy.signal.find_peaks.  x is a sequence of           *)
(* magnitudes [sq |-> power]; bin i of the code is x[i + 1].               *)

MagLt(m, n) == SLt(m.sq, n.sq)
MagEq(m, n) == m.sq = n.sq

RECURSIVE MaxMagTo(_, _)
\* np.max over the first n magnitudes, n >= 1.
MaxMagTo(x, n) ==
    IF n = 1 THEN x[1]
    ELSE LET m == MaxMagTo(x, n - 1) IN IF MagLt(m, x[n]) THEN x[n] ELSE m

\* scipy's _local_maxima_1d: the midpoints (rounded down) of the maximal
\* runs of equal samples that rise on the left and fall on the right; the
\* first and the last sample are never part of such a run.  Ascending.
LocalMaxima(x) ==
    LET n == Len(x)
        IsPlateau(l, r) ==
            /\ 1 < l /\ l <= r /\ r < n
            /\ \A i \in l..r : MagEq(x[i], x[l])
            /\ MagLt(x[l - 1], x[l])
            /\ MagLt(x[r + 1], x[r])
        mids == {m \in 1..n : \E l, r \in 1..n :
                    IsPlateau(l, r) /\ m = (l + r) \div 2}
    IN  SelectSeq([i \in 1..n |-> i], LAMBDA i : i \in mids)

\* A height test that every peak passes.
AcceptAnyHeight(m, top, hr) == TRUE

\* height <= x[peak] for height = np.max(x) * height_ratio, the ratio a
\* quotient hr[1]/hr[2]; magnitudes are non-negative.
AtLeastHeight(m, top, hr) ==
    IF RatLe0(hr) THEN TRUE
    ELSE SLe(SScale(hr[1] * hr[1], top.sq), SScale(hr[2] * hr[2], m.sq))

\* A distance rule that suppresses nothing.
SelectWithoutDistance(peaks, order, distance, i, keep) == keep

RECURSIVE SelectByDistanceFrom(_, _, _, _, _)
\* scipy's _select_by_peak_distance: from the highest priority down, a peak
\* still kept removes every other peak closer than `distance` to it.
\* order sorts the peaks by priority ascending; keep is the set of
\* positions (in peaks) still kept.
SelectByDistanceFrom(peaks, order, distance, i, keep) ==
    IF i = 0 THEN keep
    ELSE LET j == order[i]
         IN  IF j \notin keep
               THEN SelectByDistanceFrom(peaks, order, distance, i - 1, keep)
               ELSE SelectByDistanceFrom(peaks, order, distance, i - 1,
                      {k \in keep :
                         k = j \/ Abs(peaks[k] - peaks[j]) >= distance})

\* scipy.signal.find_peaks(x, height=..., distance=...), given the order
\* argsort gives the candidate peaks by height: the peaks kept, ascending.
FindPeaks(x, top, hr, distance, order) ==
    LET maxima == LocalMaxima(x)
        high == SelectSeq(maxima, LAMBDA q : AtLeastHeight(x[q], top, hr))
        keep == SelectByDistanceFrom(high, order, distance, Len(high),
                                     1..Len(high))
    IN  SelectSeq(high, LAMBDA q : \E k \in keep : high[k] = q)

\* The candidates find_peaks ranks by height before the distance rule.
PeakCandidates(x, top, hr) ==
    SelectSeq(LocalMaxima(x), LAMBDA q : AtLeastHeight(x[q], top, hr))

\* The one-sided magnitude spectrum np.abs(np.fft.fft(data))[:N // 2].
OneSided(data_) ==
    LET half == Len(data_) \div 2
    IN  SubSeq([i \in 1..Len(data_) |-> ComplexAbs(FftBin(data_, i - 1))],
               1, half)

\* The failures of lines 223-227 on n_bins magnitudes, in the order the
\* code meets them; "" when there is none.
pick_peaks_error(n_bins, distance) ==
    IF n_bins = 0
      THEN "ValueError: zero-size array to reduction operation maximum which has no identity"
    ELSE IF distance < 1
      THEN "ValueError: distance must be greater or equal to 1"
    ELSE ""

\* Lines 223-232 of detect_peaks: the peaks of the magnitudes fft_result
\* at the frequencies freqs, given the two index orders the argsort calls
\* return: order1 ranks the candidates inside find_peaks, order2 ranks the
\* peaks found by height.
pick_peaks(fft_result, freqs, hr, distance, n_peaks, order1, order2) ==
    IF pick_peaks_error(Len(fft_result), distance) # ""
      THEN Raise(pick_peaks_error(Len(fft_result), distance))
    ELSE LET top == MaxMagTo(fft_result, Len(fft_result))
             peaks == FindPeaks(fft_result, top, hr, distance, order1)
             sorted_idx == Reverse(order2)
             chosen == SliceFirst(sorted_idx, n_peaks)
             top_peaks == [i \in DOMAIN chosen |-> peaks[chosen[i]]]
         IN  Ok([frequencies |-> [i \in DOMAIN top_peaks |-> freqs[top_peaks[i]]],
                 magnitudes |-> [i \in DOMAIN top_peaks |->
                                   fft_result[top_peaks[i]]]])

\* The pairs of index orders the two argsort calls can return.
PickOrders(x, hr, distance) ==
    IF pick_peaks_error(Len(x), distance) # ""
      THEN {<< <<>>, <<>> >>}
    ELSE LET top == MaxMagTo(x, Len(x))
             cand == PeakCandidates(x, top, hr)
         IN  UNION {
               {<<o1, o2>> :
                  o2 \in ArgSorts(
                    LET found == FindPeaks(x, top, hr, distance, o1)
                    IN  [i \in DOMAIN found |-> x[found[i]].sq])} :
               o1 \in ArgSorts([i \in DOMAIN cand |-> x[cand[i]].sq])}

\* The failures of detect_peaks, in the order the code meets them; "" when
\* there is none.
detect_peaks_error(data_, fs_, distance) ==
    IF Len(data_) = 0
      THEN "ValueError: Invalid number of FFT data points (0) specified."
    ELSE IF fs_ = 0
      THEN "ZeroDivisionError: division by zero"
    ELSE pick_peaks_error(Len(data_) \div 2, distance)

\* detect_peaks given the two index orders its argsort calls return.
detect_peaks(data_, fs_, hr, distance, n_peaks, order1, order2) ==
    IF detect_peaks_error(data_, fs_, distance) # ""
      THEN Raise(detect_peaks_error(data_, fs_, distance))
    ELSE LET N == Len(data_)
             fft_result == OneSided(data_)
             freqs == SubSeq(FftFreq(N, fs_), 1, N \div 2)
         IN  pick_peaks(fft_result, freqs, hr, distance, n_peaks,
                        order1, order2)

\* The pairs of index orders the two argsort calls of detect_peaks can
\* return.
DetectOrders(data_, fs_, hr, distance) ==
    IF detect_peaks_error(data_, fs_, distance) # ""
      THEN {<< <<>>, <<>> >>}
      ELSE PickOrders(OneSided(data_), hr, distance)

----------------------------------------------------------------------------
(* get_filter_response and scipy.signal.freqz.                             *)

\* The numbers of points at which exp(-j*w) lies in Z[sqrt 3].
ExactPoints == {1, 2, 3, 6}

\* sum_m c[m] * exp(-j*pi*k*m/N), kept doubled as <<2*Re, 2*Im>>.
PolyAtBin(c, k, N) ==
    LET n == Len(c)
        ang(m) == (k * (m - 1) * (6 \div N)) % 12
        re == [m \in 1..n |-> SScale(c[m], TwoCos12(ang(m)))]
        im == [m \in 1..n |-> SScale(-c[m], TwoSin12(ang(m)))]
    IN  <<SSumTo(re, n), SSumTo(im, n)>>

\* A grid of worN points that ends on the Nyquist frequency
\* (include_nyquist = True).
FreqzGridWithNyquist(worN) == [i \in 1..worN |-> <<i - 1, worN - 1>>]

\* freqz's grid w / pi for an integer worN: np.linspace(0, pi, worN,
\* endpoint=False) / pi, the quotients k / worN for k = 0 .. worN-1.
FreqzGrid(worN) == [i \in 1..worN |-> <<i - 1, worN>>]

\* freqz evaluates h = B/A at w = k*pi/worN, k = 0 .. worN-1 (the Nyquist
\* frequency itself is not a point).  The dB magnitude and the phase are
\* transcendental: they are kept as the exact B and A they are taken of.
get_filter_response(bb, aa, fs_, worN) ==
    IF worN < 0
      THEN Raise("ValueError: Number of samples must be non-negative")
    ELSE Ok([freq_hz |-> [i \in 1..worN |->
                            <<FreqzGrid(worN)[i][1] * fs_,
                              2 * FreqzGrid(worN)[i][2]>>],
             magnitude_db |-> [i \in 1..worN |->
                 [db_of_num |-> ComplexAbs(PolyAtBin(bb, i - 1, worN)),
                  db_of_den |-> ComplexAbs(PolyAtBin(aa, i - 1, worN))]],
             phase_deg |-> [i \in 1..worN |->
                 [angle_of_num |-> PolyAtBin(bb, i - 1, worN),
                  angle_of_den |-> PolyAtBin(aa, i - 1, worN)]]])

----------------------------------------------------------------------------
(* Filter Applicator: apply_filter and scipy.signal.filtfilt.              *)
(* Coefficients are integers with a[0] = 1 and sum(a) dividing sum(b), so  *)
(* that every intermediate value is an integer.                            *)

PadTo(s, n) == [i \in 1..n |-> IF i <= Len(s) THEN s[i] ELSE 0]

\* scipy.signal.lfilter_zi(b, a): the state of the transposed direct form
\* II filter in the steady state of its step response.
LfilterZi(bb, aa) ==
    LET n == Max(Len(aa), Len(bb))
        ap == PadTo(aa, n)
        bp == PadTo(bb, n)
        B == [k \in 1..(n - 1) |-> bp[k + 1] - ap[k + 1] * bp[1]]
        z1 == SumTo(B, n - 1) \div SumTo(ap, n)
    IN  [j \in 1..(n - 1) |->
           (1 + SumTo([i \in 1..(n - 1) |-> ap[i + 1]], j - 1)) * z1
             - SumTo(B, j - 1)]

RECURSIVE LfilterFrom(_, _, _, _, _, _)
\* scipy.signal.lfilter(b, a, x, zi=z) from sample t on, y so far: the
\* transposed direct form II recurrence.
LfilterFrom(bp, ap, x, t, z, y) ==
    IF t > Len(x) THEN y
    ELSE LET n == Len(bp)
             yt == bp[1] * x[t] + (IF n > 1 THEN z[1] ELSE 0)
             zn == [i \in 1..(n - 1) |->
                      bp[i + 1] * x[t] - ap[i + 1] * yt
                        + (IF i < n - 1 THEN z[i + 1] ELSE 0)]
         IN  LfilterFrom(bp, ap, x, t + 1, zn, Append(y, yt))

Lfilter(bb, aa, x, zi) ==
    LET n == Max(Len(aa), Len(bb))
    IN  LfilterFrom(PadTo(bb, n), PadTo(aa, n), x, 1, zi, <<>>)

\* scipy.signal._arraytools.odd_ext(x, n), 1 <= n <= len(x) - 1.
OddExt(x, n) ==
    LET L == Len(x)
    IN  [i \in 1..n |-> 2 * x[1] - x[n + 2 - i]]
          \o x
          \o [i \in 1..n |-> 2 * x[L] - x[L - i]]

\* The slice that drops the left padding only.
TrimLeftOnly(y, edge) == SubSeq(y, edge + 1, Len(y))

\* axis_slice(y, start=edge, stop=-edge)
TrimEdges(y, edge) == SubSeq(y, edge + 1, Len(y) - edge)

\* scipy.signal.filtfilt(b, a, x) with padtype='odd', padlen=None,
\* method='pad'.
FiltFilt(bb, aa, x) ==
    LET ntaps == Max(Len(aa), Len(bb))
        edge == ntaps * 3
    IN  IF Len(x) <= edge
          THEN Raise("ValueError: The length of the input vector x must be greater than padlen")
        ELSE LET ext == OddExt(x, edge)
                 zi == LfilterZi(bb, aa)
                 x0 == ext[1]
                 y1 == Lfilter(bb, aa, ext, [i \in DOMAIN zi |-> zi[i] * x0])
                 y0 == y1[Len(y1)]
                 y2 == Lfilter(bb, aa, Reverse(y1),
                               [i \in DOMAIN zi |-> zi[i] * y0])
             IN  Ok(TrimEdges(Reverse(y2), edge))

apply_filter(data_, bb, aa) == FiltFilt(bb, aa, data_)

----------------------------------------------------------------------------
(* The Filter tab of the GUI (ui/tabs/filter_tab.py).                      *)

\* A stored result is identified by the run that produced it; NoResult is
\* Python's None.
NoResult == 0

\* FilterTab.__init__ and App.__init__: nothing filtered, no plot file,
\* the "Open Filter Comparison" button disabled.  loaded says whether
\* app.data holds a buffer; files is the set of plot files written.
NewFilterTab ==
    [loaded |-> FALSE, filtered_data |-> NoResult,
     app_filtered_data |-> NoResult, filter_plot_html |-> NoResult,
     files |-> {}, plot_btn |-> "disabled", run |-> 0, shown |-> "none"]

\* FilterTab.apply_filter as run number g.run + 1 on the loaded buffer
\* data_ sampled at fs_, with the entries as typed and the given fault.
\* An entry holds the text of a number, Some(v), or text that is no
\* number, None: float() / int() raise ValueError on it.  The fault is
\* the step using the plotting library or the file system that raises
\* (OSError and the like) in this run, "none" when none does.
FilterTab_apply_filter(g, data_, fs_, entries, fault) ==
    LET r == g.run + 1
        failed == [g EXCEPT !.run = r, !.shown = "error"]
    IN  IF ~g.loaded
          THEN [g EXCEPT !.run = r, !.shown = "warning"]
        ELSE IF entries.cutoff = None \/ entries.order = None
          THEN failed
        ELSE IF entries.filter_type \in BandTypes
                /\ entries.cutoff_high = None
          THEN failed
        ELSE LET fc_high == IF entries.filter_type \in BandTypes
                              THEN entries.cutoff_high ELSE None
                 design == design_filter(fs_, entries.cutoff[1],
                                         entries.order[1],
                                         entries.filter_type,
                                         entries.design, fc_high,
                                         DefaultRipple)
             IN  IF design.status = "error"
                   THEN failed
                 ELSE IF Len(data_) <= 3 * Max(design.result.na,
                                               design.result.nb)
                   THEN failed
                 ELSE LET filtered ==
                              [failed EXCEPT !.filtered_data = r,
                                             !.app_filtered_data = r]
                          named ==
                              [filtered EXCEPT !.filter_plot_html = r]
                      IN  IF fault \in {"plot", "tempfile"}
                            THEN filtered
                          ELSE IF fault = "write_html"
                            THEN named
                          ELSE [named EXCEPT
                                  !.files = @ \cup {r},
                                  !.plot_btn = "normal",
                                  !.shown = "ok"]

----------------------------------------------------------------------------
(* The formula engine (core/formula_engine.py).                            *)

\* A sheet's formulas are calc.formulas in dictionary order: formula v is
\* F[v], refs the cell variables its expression names (in the order
\* _extract_vars finds them) and raises whether its evaluation raises
\* whatever its operands are (1/0, a missing input, ...).  A reference
\* outside DOMAIN F is a cell that is no formula of the sheet; its value
\* comes with the inputs.
\* The state of one calculate call: the executed set, the results
\* dictionary ("unset" for a key that is absent, "None", or "value"), the
\* order in which formulas were evaluated, and whether RecursionError is
\* propagating.
NewCalculation(F) ==
    [executed |-> {}, results |-> [v \in DOMAIN F |-> "unset"],
     trace |-> <<>>, error |-> FALSE]

\* eval(formula, namespace): raises when the expression does, or with
\* NameError when a referenced formula left no value in the namespace.
EvalRaises(F, st, v) ==
    \/ F[v].raises
    \/ \E i \in DOMAIN F[v].refs :
          /\ F[v].refs[i] \in DOMAIN F
          /\ st.results[F[v].refs[i]] # "value"

RECURSIVE execute_formula(_, _, _, _)
RECURSIVE ExecuteDependencies(_, _, _, _, _)

\* The loop "for dep_var in self._extract_vars(formula)" of the frame at
\* the given depth, from the i-th reference on.
ExecuteDependencies(F, st, v, i, depth) ==
    IF st.error \/ i > Len(F[v].refs)
      THEN st
    ELSE LET dep_var == F[v].refs[i]
             after == IF dep_var \in DOMAIN F /\ dep_var \notin st.executed
                        THEN execute_formula(F, st, dep_var, depth + 1)
                        ELSE st
         IN  ExecuteDependencies(F, after, v, i + 1, depth)

\* execute_formula(var_name, formula) called at the given depth.
execute_formula(F, st, v, depth) ==
    IF st.error
      THEN st
    ELSE IF depth > RecursionLimit
      THEN [st EXCEPT !.error = TRUE]
    ELSE IF v \in st.executed
      THEN st
    ELSE LET deps == ExecuteDependencies(F, st, v, 1, depth)
         IN  IF deps.error
               THEN deps
             ELSE [deps EXCEPT
                     !.results[v] = IF EvalRaises(F, deps, v)
                                      THEN "None" ELSE "value",
                     !.executed = @ \cup {v},
                     !.trace = Append(@, v)]

RECURSIVE ExecuteAll(_, _, _)
\* The loop "for var_name, formula in calc.formulas.items()".
ExecuteAll(F, st, v) ==
    IF v > Len(F) THEN st
    ELSE ExecuteAll(F, execute_formula(F, st, v, 1), v + 1)

\* FormulaEngine.calculate(sheet, inputs) for a sheet with the formulas F.
calculate(F) ==
    LET st == ExecuteAll(F, NewCalculation(F), 1)
    IN  IF st.error
          THEN Raise("RecursionError: maximum recursion depth exceeded")
        ELSE Ok([results |-> st.results, trace |-> st.trace])

----------------------------------------------------------------------------
(* The unit conversion engine (core/units.py).                             *)

\* The entries of the UNIT_DEFINITIONS dictionary display, in the order
\* they are written; to_si_factor and to_si_offset are the literals as
\* written.
UnitEntries == <<
    [symbol |-> "m", name |-> "meter", category |-> "length", to_si_factor |-> "1.0", to_si_offset |-> "0.0"],
    [symbol |-> "km", name |-> "kilometer", category |-> "length", to_si_factor |-> "1e3", to_si_offset |-> "0.0"],
    [symbol |-> "cm", name |-> "centimeter", category |-> "length", to_si_factor |-> "1e-2", to_si_offset |-> "0.0"],
    [symbol |-> "mm", name |-> "millimeter", category |-> "length", to_si_factor |-> "1e-3", to_si_offset |-> "0.0"],
    [symbol |-> "um", name |-> "micrometer", category |-> "length", to_si_factor |-> "1e-6", to_si_offset |-> "0.0"],
    [symbol |-> "nm", name |-> "nanometer", category |-> "length", to_si_factor |-> "1e-9", to_si_offset |-> "0.0"],
    [symbol |-> "in", name |-> "inch", category |-> "length", to_si_factor |-> "0.0254", to_si_offset |-> "0.0"],
    [symbol |-> "ft", name |-> "foot", category |-> "length", to_si_factor |-> "0.3048", to_si_offset |-> "0.0"],
    [symbol |-> "yd", name |-> "yard", category |-> "length", to_si_factor |-> "0.9144", to_si_offset |-> "0.0"],
    [symbol |-> "mi", name |-> "mile", category |-> "length", to_si_factor |-> "1609.344", to_si_offset |-> "0.0"],
    [symbol |-> "kg", name |-> "kilogram", category |-> "mass", to_si_factor |-> "1.0", to_si_offset |-> "0.0"],
    [symbol |-> "g", name |-> "gram", category |-> "mass", to_si_factor |-> "1e-3", to_si_offset |-> "0.0"],
    [symbol |-> "mg", name |-> "milligram", category |-> "mass", to_si_factor |-> "1e-6", to_si_offset |-> "0.0"],
    [symbol |-> "lb", name |-> "pound", category |-> "mass", to_si_factor |-> "0.453592", to_si_offset |-> "0.0"],
    [symbol |-> "oz", name |-> "ounce", category |-> "mass", to_si_factor |-> "0.0283495", to_si_offset |-> "0.0"],
    [symbol |-> "t", name |-> "tonne", category |-> "mass", to_si_factor |-> "1e3", to_si_offset |-> "0.0"],
    [symbol |-> "ton", name |-> "short ton", category |-> "mass", to_si_factor |-> "907.185", to_si_offset |-> "0.0"],
    [symbol |-> "slug", name |-> "slug", category |-> "mass", to_si_factor |-> "14.5939", to_si_offset |-> "0.0"],
    [symbol |-> "s", name |-> "second", category |-> "time", to_si_factor |-> "1.0", to_si_offset |-> "0.0"],
    [symbol |-> "ms", name |-> "millisecond", category |-> "time", to_si_factor |-> "1e-3", to_si_offset |-> "0.0"],
    [symbol |-> "us", name |-> "microsecond", category |-> "time", to_si_factor |-> "1e-6", to_si_offset |-> "0.0"],
    [symbol |-> "ns", name |-> "nanosecond", category |-> "time", to_si_factor |-> "1e-9", to_si_offset |-> "0.0"],
    [symbol |-> "min", name |-> "minute", category |-> "time", to_si_factor |-> "60.0", to_si_offset |-> "0.0"],
    [symbol |-> "h", name |-> "hour", category |-> "time", to_si_factor |-> "3600.0", to_si_offset |-> "0.0"],
    [symbol |-> "N", name |-> "newton", category |-> "force", to_si_factor |-> "1.0", to_si_offset |-> "0.0"],
    [symbol |-> "kN", name |-> "kilonewton", category |-> "force", to_si_factor |-> "1e3", to_si_offset |-> "0.0"],
    [symbol |-> "mN", name |-> "millinewton", category |-> "force", to_si_factor |-> "1e-3", to_si_offset |-> "0.0"],
    [symbol |-> "lbf", name |-> "pound-force", category |-> "force", to_si_factor |-> "4.44822", to_si_offset |-> "0.0"],
    [symbol |-> "kgf", name |-> "kilogram-force", category |-> "force", to_si_factor |-> "9.80665", to_si_offset |-> "0.0"],
    [symbol |-> "ozf", name |-> "ounce-force", category |-> "force", to_si_factor |-> "0.278014", to_si_offset |-> "0.0"],
    [symbol |-> "kip", name |-> "kilopound-force", category |-> "force", to_si_factor |-> "4448.22", to_si_offset |-> "0.0"],
    [symbol |-> "Pa", name |-> "pascal", category |-> "pressure", to_si_factor |-> "1.0", to_si_offset |-> "0.0"],
    [symbol |-> "kPa", name |-> "kilopascal", category |-> "pressure", to_si_factor |-> "1e3", to_si_offset |-> "0.0"],
    [symbol |-> "MPa", name |-> "megapascal", category |-> "pressure", to_si_factor |-> "1e6", to_si_offset |-> "0.0"],
    [symbol |-> "GPa", name |-> "gigapascal", category |-> "pressure", to_si_factor |-> "1e9", to_si_offset |-> "0.0"],
    [symbol |-> "bar", name |-> "bar", category |-> "pressure", to_si_factor |-> "1e5", to_si_offset |-> "0.0"],
    [symbol |-> "mbar", name |-> "millibar", category |-> "pressure", to_si_factor |-> "1e2", to_si_offset |-> "0.0"],
    [symbol |-> "psi", name |-> "psi", category |-> "pressure", to_si_factor |-> "6894.76", to_si_offset |-> "0.0"],
    [symbol |-> "ksi", name |-> "ksi", category |-> "pressure", to_si_factor |-> "6894760.0", to_si_offset |-> "0.0"],
    [symbol |-> "atm", name |-> "atmosphere", category |-> "pressure", to_si_factor |-> "101325.0", to_si_offset |-> "0.0"],
    [symbol |-> "inHg", name |-> "inch of mercury", category |-> "pressure", to_si_factor |-> "3386.39", to_si_offset |-> "0.0"],
    [symbol |-> "mmHg", name |-> "millimeter of mercury", category |-> "pressure", to_si_factor |-> "133.322", to_si_offset |-> "0.0"],
    [symbol |-> "J", name |-> "joule", category |-> "energy", to_si_factor |-> "1.0", to_si_offset |-> "0.0"],
    [symbol |-> "kJ", name |-> "kilojoule", category |-> "energy", to_si_factor |-> "1e3", to_si_offset |-> "0.0"],
    [symbol |-> "MJ", name |-> "megajoule", category |-> "energy", to_si_factor |-> "1e6", to_si_offset |-> "0.0"],
    [symbol |-> "mJ", name |-> "millijoule", category |-> "energy", to_si_factor |-> "1e-3", to_si_offset |-> "0.0"],
    [symbol |-> "Wh", name |-> "watt-hour", category |-> "energy", to_si_factor |-> "3600.0", to_si_offset |-> "0.0"],
    [symbol |-> "kWh", name |-> "kilowatt-hour", category |-> "energy", to_si_factor |-> "3.6e6", to_si_offset |-> "0.0"],
    [symbol |-> "cal", name |-> "calorie", category |-> "energy", to_si_factor |-> "4.184", to_si_offset |-> "0.0"],
    [symbol |-> "kcal", name |-> "kilocalorie", category |-> "energy", to_si_factor |-> "4184.0", to_si_offset |-> "0.0"],
    [symbol |-> "BTU", name |-> "British thermal unit", category |-> "energy", to_si_factor |-> "1055.06", to_si_offset |-> "0.0"],
    [symbol |-> "ft_lbf", name |-> "foot-pound", category |-> "energy", to_si_factor |-> "1.35582", to_si_offset |-> "0.0"],
    [symbol |-> "eV", name |-> "electronvolt", category |-> "energy", to_si_factor |-> "1.602e-19", to_si_offset |-> "0.0"],
    [symbol |-> "W", name |-> "watt", category |-> "power", to_si_factor |-> "1.0", to_si_offset |-> "0.0"],
    [symbol |-> "kW", name |-> "kilowatt", category |-> "power", to_si_factor |-> "1e3", to_si_offset |-> "0.0"],
    [symbol |-> "MW", name |-> "megawatt", category |-> "power", to_si_factor |-> "1e6", to_si_offset |-> "0.0"],
    [symbol |-> "mW", name |-> "milliwatt", category |-> "power", to_si_factor |-> "1e-3", to_si_offset |-> "0.0"],
    [symbol |-> "hp", name |-> "horsepower (mech)", category |-> "power", to_si_factor |-> "745.7", to_si_offset |-> "0.0"],
    [symbol |-> "hp_metric", name |-> "horsepower (metric)", category |-> "power", to_si_factor |-> "735.499", to_si_offset |-> "0.0"],
    [symbol |-> "BTU/h", name |-> "BTU per hour", category |-> "power", to_si_factor |-> "0.293071", to_si_offset |-> "0.0"],
    [symbol |-> "V", name |-> "volt", category |-> "voltage", to_si_factor |-> "1.0", to_si_offset |-> "0.0"],
    [symbol |-> "kV", name |-> "kilovolt", category |-> "voltage", to_si_factor |-> "1e3", to_si_offset |-> "0.0"],
    [symbol |-> "mV", name |-> "millivolt", category |-> "voltage", to_si_factor |-> "1e-3", to_si_offset |-> "0.0"],
    [symbol |-> "uV", name |-> "microvolt", category |-> "voltage", to_si_factor |-> "1e-6", to_si_offset |-> "0.0"],
    [symbol |-> "A", name |-> "ampere", category |-> "current", to_si_factor |-> "1.0", to_si_offset |-> "0.0"],
    [symbol |-> "kA", name |-> "kiloampere", category |-> "current", to_si_factor |-> "1e3", to_si_offset |-> "0.0"],
    [symbol |-> "mA", name |-> "milliampere", category |-> "current", to_si_factor |-> "1e-3", to_si_offset |-> "0.0"],
    [symbol |-> "uA", name |-> "microampere", category |-> "current", to_si_factor |-> "1e-6", to_si_offset |-> "0.0"],
    [symbol |-> "nA", name |-> "nanoampere", category |-> "current", to_si_factor |-> "1e-9", to_si_offset |-> "0.0"],
    [symbol |-> "Ohm", name |-> "ohm", category |-> "resistance", to_si_factor |-> "1.0", to_si_offset |-> "0.0"],
    [symbol |-> "kOhm", name |-> "kiloohm", category |-> "resistance", to_si_factor |-> "1e3", to_si_offset |-> "0.0"],
    [symbol |-> "MOhm", name |-> "megaohm", category |-> "resistance", to_si_factor |-> "1e6", to_si_offset |-> "0.0"],
    [symbol |-> "mOhm", name |-> "milliohm", category |-> "resistance", to_si_factor |-> "1e-3", to_si_offset |-> "0.0"],
    [symbol |-> "F", name |-> "farad", category |-> "capacitance", to_si_factor |-> "1.0", to_si_offset |-> "0.0"],
    [symbol |-> "mF", name |-> "millifarad", category |-> "capacitance", to_si_factor |-> "1e-3", to_si_offset |-> "0.0"],
    [symbol |-> "uF", name |-> "microfarad", category |-> "capacitance", to_si_factor |-> "1e-6", to_si_offset |-> "0.0"],
    [symbol |-> "nF", name |-> "nanofarad", category |-> "capacitance", to_si_factor |-> "1e-9", to_si_offset |-> "0.0"],
    [symbol |-> "pF", name |-> "picofarad", category |-> "capacitance", to_si_factor |-> "1e-12", to_si_offset |-> "0.0"],
    [symbol |-> "H", name |-> "henry", category |-> "inductance", to_si_factor |-> "1.0", to_si_offset |-> "0.0"],
    [symbol |-> "mH", name |-> "millihenry", category |-> "inductance", to_si_factor |-> "1e-3", to_si_offset |-> "0.0"],
    [symbol |-> "uH", name |-> "microhenry", category |-> "inductance", to_si_factor |-> "1e-6", to_si_offset |-> "0.0"],
    [symbol |-> "nH", name |-> "nanohenry", category |-> "inductance", to_si_factor |-> "1e-9", to_si_offset |-> "0.0"],
    [symbol |-> "Hz", name |-> "hertz", category |-> "frequency", to_si_factor |-> "1.0", to_si_offset |-> "0.0"],
    [symbol |-> "kHz", name |-> "kilohertz", category |-> "frequency", to_si_factor |-> "1e3", to_si_offset |-> "0.0"],
    [symbol |-> "MHz", name |-> "megahertz", category |-> "frequency", to_si_factor |-> "1e6", to_si_offset |-> "0.0"],
    [symbol |-> "GHz", name |-> "gigahertz", category |-> "frequency", to_si_factor |-> "1e9", to_si_offset |-> "0.0"],
    [symbol |-> "rpm", name |-> "revolutions per minute", category |-> "frequency", to_si_factor |-> "1/60", to_si_offset |-> "0.0"],
    [symbol |-> "rad", name |-> "radian", category |-> "angle", to_si_factor |-> "1.0", to_si_offset |-> "0.0"],
    [symbol |-> "mrad", name |-> "milliradian", category |-> "angle", to_si_factor |-> "1e-3", to_si_offset |-> "0.0"],
    [symbol |-> "deg", name |-> "degree", category |-> "angle", to_si_factor |-> "math.pi/180", to_si_offset |-> "0.0"],
    [symbol |-> "arcmin", name |-> "arcminute", category |-> "angle", to_si_factor |-> "math.pi/10800", to_si_offset |-> "0.0"],
    [symbol |-> "arcsec", name |-> "arcsecond", category |-> "angle", to_si_factor |-> "math.pi/648000", to_si_offset |-> "0.0"],
    [symbol |-> "m2", name |-> "square meter", category |-> "area", to_si_factor |-> "1.0", to_si_offset |-> "0.0"],
    [symbol |-> "cm2", name |-> "square centimeter", category |-> "area", to_si_factor |-> "1e-4", to_si_offset |-> "0.0"],
    [symbol |-> "mm2", name |-> "square millimeter", category |-> "area", to_si_factor |-> "1e-6", to_si_offset |-> "0.0"],
    [symbol |-> "km2", name |-> "square kilometer", category |-> "area", to_si_factor |-> "1e6", to_si_offset |-> "0.0"],
    [symbol |-> "in2", name |-> "square inch", category |-> "area", to_si_factor |-> "6.4516e-4", to_si_offset |-> "0.0"],
    [symbol |-> "ft2", name |-> "square foot", category |-> "area", to_si_factor |-> "0.092903", to_si_offset |-> "0.0"],
    [symbol |-> "yd2", name |-> "square yard", category |-> "area", to_si_factor |-> "0.836127", to_si_offset |-> "0.0"],
    [symbol |-> "acre", name |-> "acre", category |-> "area", to_si_factor |-> "4046.86", to_si_offset |-> "0.0"],
    [symbol |-> "ha", name |-> "hectare", category |-> "area", to_si_factor |-> "10000.0", to_si_offset |-> "0.0"],
    [symbol |-> "m3", name |-> "cubic meter", category |-> "volume", to_si_factor |-> "1.0", to_si_offset |-> "0.0"],
    [symbol |-> "cm3", name |-> "cubic centimeter", category |-> "volume", to_si_factor |-> "1e-6", to_si_offset |-> "0.0"],
    [symbol |-> "mm3", name |-> "cubic millimeter", category |-> "volume", to_si_factor |-> "1e-9", to_si_offset |-> "0.0"],
    [symbol |-> "L", name |-> "liter", category |-> "volume", to_si_factor |-> "1e-3", to_si_offset |-> "0.0"],
    [symbol |-> "mL", name |-> "milliliter", category |-> "volume", to_si_factor |-> "1e-6", to_si_offset |-> "0.0"],
    [symbol |-> "gal", name |-> "gallon (US)", category |-> "volume", to_si_factor |-> "3.78541e-3", to_si_offset |-> "0.0"],
    [symbol |-> "qt", name |-> "quart (US)", category |-> "volume", to_si_factor |-> "9.4635e-4", to_si_offset |-> "0.0"],
    [symbol |-> "pt", name |-> "pint (US)", category |-> "volume", to_si_factor |-> "4.73176e-4", to_si_offset |-> "0.0"],
    [symbol |-> "fl_oz", name |-> "fluid ounce (US)", category |-> "volume", to_si_factor |-> "2.9574e-5", to_si_offset |-> "0.0"],
    [symbol |-> "in3", name |-> "cubic inch", category |-> "volume", to_si_factor |-> "1.6387e-5", to_si_offset |-> "0.0"],
    [symbol |-> "ft3", name |-> "cubic foot", category |-> "volume", to_si_factor |-> "0.0283168", to_si_offset |-> "0.0"],
    [symbol |-> "m/s", name |-> "meter per second", category |-> "velocity", to_si_factor |-> "1.0", to_si_offset |-> "0.0"],
    [symbol |-> "km/h", name |-> "kilometer per hour", category |-> "velocity", to_si_factor |-> "1/3.6", to_si_offset |-> "0.0"],
    [symbol |-> "mph", name |-> "miles per hour", category |-> "velocity", to_si_factor |-> "0.44704", to_si_offset |-> "0.0"],
    [symbol |-> "ft/s", name |-> "feet per second", category |-> "velocity", to_si_factor |-> "0.3048", to_si_offset |-> "0.0"],
    [symbol |-> "knot", name |-> "knot", category |-> "velocity", to_si_factor |-> "0.514444", to_si_offset |-> "0.0"],
    [symbol |-> "m/s2", name |-> "meter per second squared", category |-> "acceleration", to_si_factor |-> "1.0", to_si_offset |-> "0.0"],
    [symbol |-> "g", name |-> "standard gravity", category |-> "acceleration", to_si_factor |-> "9.80665", to_si_offset |-> "0.0"],
    [symbol |-> "ft/s2", name |-> "feet per second squared", category |-> "acceleration", to_si_factor |-> "0.3048", to_si_offset |-> "0.0"],
    [symbol |-> "Nm", name |-> "newton-meter", category |-> "torque", to_si_factor |-> "1.0", to_si_offset |-> "0.0"],
    [symbol |-> "kNm", name |-> "kilonewton-meter", category |-> "torque", to_si_factor |-> "1e3", to_si_offset |-> "0.0"],
    [symbol |-> "mNm", name |-> "millinewton-meter", category |-> "torque", to_si_factor |-> "1e-3", to_si_offset |-> "0.0"],
    [symbol |-> "lbf_ft", name |-> "pound-foot", category |-> "torque", to_si_factor |-> "1.35582", to_si_offset |-> "0.0"],
    [symbol |-> "lbf_in", name |-> "pound-inch", category |-> "torque", to_si_factor |-> "0.112985", to_si_offset |-> "0.0"],
    [symbol |-> "ozf_in", name |-> "ounce-inch", category |-> "torque", to_si_factor |-> "0.00706155", to_si_offset |-> "0.0"],
    [symbol |-> "m4", name |-> "meter to fourth", category |-> "moment_of_inertia", to_si_factor |-> "1.0", to_si_offset |-> "0.0"],
    [symbol |-> "cm4", name |-> "centimeter to fourth", category |-> "moment_of_inertia", to_si_factor |-> "1e-8", to_si_offset |-> "0.0"],
    [symbol |-> "mm4", name |-> "millimeter to fourth", category |-> "moment_of_inertia", to_si_factor |-> "1e-12", to_si_offset |-> "0.0"],
    [symbol |-> "in4", name |-> "inch to fourth", category |-> "moment_of_inertia", to_si_factor |-> "4.162314e-7", to_si_offset |-> "0.0"],
    [symbol |-> "kg/m3", name |-> "kilogram per cubic meter", category |-> "density", to_si_factor |-> "1.0", to_si_offset |-> "0.0"],
    [symbol |-> "g/cm3", name |-> "gram per cubic centimeter", category |-> "density", to_si_factor |-> "1e3", to_si_offset |-> "0.0"],
    [symbol |-> "kg/L", name |-> "kilogram per liter", category |-> "density", to_si_factor |-> "1e3", to_si_offset |-> "0.0"],
    [symbol |-> "lb/ft3", name |-> "pound per cubic foot", category |-> "density", to_si_factor |-> "16.0185", to_si_offset |-> "0.0"],
    [symbol |-> "lb/in3", name |-> "pound per cubic inch", category |-> "density", to_si_factor |-> "27679.9", to_si_offset |-> "0.0"],
    [symbol |-> "slug/ft3", name |-> "slug per cubic foot", category |-> "density", to_si_factor |-> "515.379", to_si_offset |-> "0.0"],
    [symbol |-> "K", name |-> "kelvin", category |-> "temperature", to_si_factor |-> "1.0", to_si_offset |-> "0.0"],
    [symbol |-> "C", name |-> "celsius", category |-> "temperature", to_si_factor |-> "1.0", to_si_offset |-> "273.15"],
    [symbol |-> "F", name |-> "fahrenheit", category |-> "temperature", to_si_factor |-> "5/9", to_si_offset |-> "255.372"],
    [symbol |-> "R", name |-> "rankine", category |-> "temperature", to_si_factor |-> "5/9", to_si_offset |-> "0.0"]
>>

\* The dictionary the display builds: a key written more than once keeps
\* the value written last.
LastEntryOf(symbol) ==
    LET i == CHOOSE k \in DOMAIN UnitEntries :
                 /\ UnitEntries[k].symbol = symbol
                 /\ \A j \in DOMAIN UnitEntries :
                       UnitEntries[j].symbol = symbol => j <= k
    IN  UnitEntries[i]

UnitSymbols == {UnitEntries[i].symbol : i \in DOMAIN UnitEntries}

UNIT_DEFINITIONS == [u \in UnitSymbols |-> LastEntryOf(u)]

\* The si_units dictionary of get_si_unit: no entry for temperature.
si_units ==
    ("length" :> "m") @@
    ("mass" :> "kg") @@
    ("time" :> "s") @@
    ("force" :> "N") @@
    ("pressure" :> "Pa") @@
    ("energy" :> "J") @@
    ("power" :> "W") @@
    ("voltage" :> "V") @@
    ("current" :> "A") @@
    ("resistance" :> "Ohm") @@
    ("capacitance" :> "F") @@
    ("inductance" :> "H") @@
    ("frequency" :> "Hz") @@
    ("angle" :> "rad") @@
    ("area" :> "m2") @@
    ("volume" :> "m3") @@
    ("velocity" :> "m/s") @@
    ("acceleration" :> "m/s2") @@
    ("torque" :> "Nm") @@
    ("moment_of_inertia" :> "m4") @@
    ("density" :> "kg/m3")

\* UnitConverter.get_si_unit(unit): si_units.get(category, unit).
get_si_unit(unit) ==
    IF unit \notin DOMAIN UNIT_DEFINITIONS
      THEN Raise("ValueError: Unknown unit")
    ELSE LET category == UNIT_DEFINITIONS[unit].category
         IN  IF category \in DOMAIN si_units
               THEN Ok(si_units[category])
               ELSE Ok(unit)

\* UnitConverter.convert(value, from_unit, to_unit): the checks it makes
\* and the two definitions whose factor and offset it applies (the float
\* arithmetic on value is not modelled).
convert(value, from_unit, to_unit) ==
    IF from_unit \notin DOMAIN UNIT_DEFINITIONS
      THEN Raise("ValueError: Unknown unit")
    ELSE IF to_unit \notin DOMAIN UNIT_DEFINITIONS
      THEN Raise("ValueError: Unknown unit")
    ELSE LET from_def == UNIT_DEFINITIONS[from_unit]
             to_def == UNIT_DEFINITIONS[to_unit]
         IN  IF from_def.category # to_def.category
               THEN Raise("ValueError: Cannot convert between categories")
             ELSE Ok([value |-> value, from_def |-> from_def,
                      to_def |-> to_def])

----------------------------------------------------------------------------
(* Inputs.                                                                 *)

Samples == {-1, 0, 1}
FsValues == {-6, 0, 6}
FcValues == -1..MaxCutoff
Orders == -1..MaxOrder
FcHighValues == {None} \cup {Some(v) : v \in 1..MaxCutoff}
Ripples == {-DefaultRipple, DefaultRipple}

\* Every buffer over Samples of a length up to MaxLen whose DFT is exact,
\* the empty buffer, and longer test signals of 6 and 12 samples.
ShortBuffers ==
    UNION {SeqsOfLen(Samples, n) : n \in {m \in 0..MaxLen : m = 0 \/ m \in ExactLens}}
LongBuffers ==
    {[i \in 1..n |-> IF (i - 1) % p = r THEN s ELSE 0] :
        n \in {6, 12}, p \in {2, 3, 4}, r \in {0, 1}, s \in {-1, 1}}
    \cup {[i \in 1..n |-> IF i \in q..(q + w) THEN 1 ELSE 0] :
        n \in {6, 12}, q \in {1, 2}, w \in {0, 1, 2}}
Buffers == ShortBuffers \cup LongBuffers

\* Buffers for the Filter Applicator: four shapes of every length.
FilterBuffers ==
    {[i \in 1..n |-> CASE shape = "constant" -> 1
                       [] shape = "ramp" -> i
                       [] shape = "alternating" -> (IF i % 2 = 0 THEN 1 ELSE -1)
                       [] shape = "impulse" -> (IF i = 1 THEN 1 ELSE 0)] :
        n \in 0..MaxSignalLen,
        shape \in {"constant", "ramp", "alternating", "impulse"}}

\* Coefficient pairs (b, a): at least two taps, as every design of order
\* >= 1 has; a[0] = 1 and sum(a) = 1.
NumeratorCoeffs == UNION {SeqsOfLen({0, 1}, n) : n \in 1..MaxTaps}
DenominatorCoeffs ==
    {s \in {<<1>>, <<1, 0>>, <<1, -1, 1>>, <<1, 0, 0, 0>>} : Len(s) <= MaxTaps}
CoeffPairs ==
    {p \in NumeratorCoeffs \X DenominatorCoeffs : Max(Len(p[1]), Len(p[2])) >= 2}

\* Spectra for find_resonance: integer powers, and frequency sequences
\* of the same, a shorter or a longer length.
PsdArrays ==
    UNION {SeqsOfLen({SInt(0), SInt(1), SInt(2)}, n) : n \in 0..MaxBins}
FrequencyGrids ==
    {[i \in 1..n |-> <<f0 + (i - 1) * df, 2>>] :
        n \in 0..(MaxBins + 1), f0 \in {3, 10}, df \in {-1, 4}}
RoundTos == {-5, 0, 2, 5}

\* The default round_to of find_resonance.
DefaultRoundTo == 5

\* The arguments a specification does not vary.
BaseInput ==
    [fc |-> 1, order |-> 1, filter_type |-> "lowpass", design |-> "butter",
     fc_high |-> None, ripple |-> DefaultRipple,
     frequencies |-> << <<1, 2>>, <<2, 2>>, <<3, 2>> >>,
     psd |-> <<SInt(1), SInt(2), SInt(2)>>,
     round_to |-> DefaultRoundTo,
     n_peaks |-> 2,
     height_ratio |-> <<1, 20>>, distance |-> 2, n_detect |-> 2,
     window_seconds |-> <<1, 3>>,
     fft_result |-> <<>>,
     worN |-> 3]

ResonanceInputs ==
    {[BaseInput EXCEPT !.frequencies = f, !.psd = p, !.round_to = r] :
        f \in FrequencyGrids, p \in PsdArrays, r \in RoundTos}

\* Buffers for detect_peaks: the lengths that fail, and 12-sample buffers
\* whose one-sided spectra have no peak, one peak, two peaks two or three
\* bins apart (either one the larger, or equal), peaks below half of a
\* dominant DC bin, and a flat-topped peak.
DetectBuffers ==
    {<<>>, <<1>>, <<1, -1>>, <<1, 0, -1, 0>>, <<1, 1, 0, -1, -1, 0>>,
     <<-1, -1, -1, -1, -1, -1, -1, -1, -1, -1, -1, -1>>,
     <<-1, -1, -1, 0, 1, 0, 0, 0, 0, 0, 0, 0>>,
     <<-1, -1, -1, -1, 0, -1, 1, 1, -1, 0, 0, 1>>,
     <<-1, 0, -1, 0, -1, 1, 0, 0, 0, 0, 0, 0>>,
     <<-1, 1, -1, 0, -1, 1, 0, 0, 0, 0, 0, 0>>,
     <<-1, -1, -1, -1, 1, 1, 0, 0, 0, 0, 0, 0>>,
     <<-1, -1, 1, 0, -1, 1, 0, 0, 0, 0, 0, 0>>,
     <<-1, -1, -1, -1, 0, 1, 0, 0, 0, 0, 0, 0>>,
     <<-1, -1, -1, -1, 0, 0, -1, 1, -1, 0, 1, 1>>,
     <<-1, -1, -1, -1, -1, 0, -1, -1, 0, -1, 1, 1>>,
     <<-1, -1, -1, -1, 0, 0, -1, -1, -1, 0, 1, 1>>,
     <<-1, -1, 0, -1, -1, 1, -1, -1, 0, -1, 0, 1>>,
     <<-1, -1, -1, 0, -1, 0, -1, -1, 0, 0, -1, 0>>,
     <<-1, -1, -1, -1, 0, -1, 0, 1, 0, 0, 0, 0>>,
     <<-1, 0, 0, 0, 1, 0, 0, 0, 0, 0, 0, 0>>}
HeightRatios == {<<0, 1>>, <<1, 20>>, <<1, 2>>, <<1, 1>>}
Distances == 0..MaxDistance
DetectInputs ==
    {[BaseInput EXCEPT !.height_ratio = h, !.distance = d, !.n_detect = n] :
        h \in HeightRatios, d \in Distances, n \in -1..MaxBins}

\* A magnitude v, kept as its square.
Mag(v) == [sq |-> SInt(v * v)]

\* One-sided magnitude spectra of seven bins for the peak-picking step:
\* up to three peaks of any heights two bins apart, and valleys of height
\* 0 or 1 between them (a valley as high as its neighbours makes a flat
\* top).
PeakSpectra ==
    {<<Mag(0), Mag(p1), Mag(v1), Mag(p2), Mag(v2), Mag(p3), Mag(0)>> :
        p1 \in 0..MaxHeight, p2 \in 0..MaxHeight, p3 \in 0..MaxHeight,
        v1 \in {0, 1}, v2 \in {0, 1}}
PickInputs ==
    {[BaseInput EXCEPT !.fft_result = x, !.height_ratio = h,
                       !.distance = d, !.n_detect = n] :
        x \in PeakSpectra, h \in {<<0, 1>>, <<1, 2>>}, d \in Distances,
        n \in {1, MaxBins}}

\* Buffers and window lengths for compute_rms_windowed: with fs = 6 the
\* window sizes are 0 (0.6 truncated), 1, 1 (1.5 truncated), 2, 3 and 4,
\* and with fs = -6 their negatives.
WindowedBuffers == UNION {SeqsOfLen(Samples, n) : n \in 0..MaxWindowed}
WindowSeconds ==
    {<<0, 1>>, <<1, 10>>, <<1, 6>>, <<1, 4>>, <<1, 3>>, <<1, 2>>, <<2, 3>>,
     <<-1, 3>>}
WindowedInputs ==
    {[BaseInput EXCEPT !.window_seconds = w] : w \in WindowSeconds}

\* Buffers for compute_statistics: every short buffer over Samples, and
\* buffers with a larger spread.
StatisticsBuffers ==
    UNION {SeqsOfLen(Samples, n) : n \in 0..MaxLen}
      \cup {<<1, 2, 3, 4, 5>>, <<5, 1, 1>>, <<-3, 2>>, <<2, 2, 2, 2>>}

\* Numbers of points for get_filter_response: those with an exact
\* response, none, and a negative one.
PointCounts == ExactPoints \cup {0, -1}
ResponseInputs == {[BaseInput EXCEPT !.worN = n] : n \in PointCounts}

NPeaks == -1..(MaxBins + 1)
TopPeaksInputs ==
    {[BaseInput EXCEPT !.frequencies = f, !.psd = p, !.n_peaks = n] :
        f \in FrequencyGrids, p \in PsdArrays, n \in NPeaks}

DesignInputs ==
    {[BaseInput EXCEPT !.fc = fc, !.order = order,
                       !.filter_type = filter_type, !.design = design,
                       !.fc_high = fc_high, !.ripple = ripple] :
        fc \in FcValues, order \in Orders, filter_type \in FilterTypes,
        design \in Designs, fc_high \in FcHighValues, ripple \in Ripples}

\* What the Filter tab's entries can hold: a cutoff, a high cutoff and an
\* order (each possibly text that is no number), a response and a family.
GuiEntries ==
    [cutoff : {None, Some(1), Some(MaxCutoff)},
     cutoff_high : {None, Some(2)},
     order : {None, Some(1)},
     filter_type : {"lowpass", "bandpass"},
     design : {"butter"}]

\* Every sheet of 1 .. MaxFormulas formulas with up to MaxRefs references
\* each: to itself, to each other and to cells that are no formula.
FormulaSets ==
    LET RefLists == UNION {SeqsOfLen(1..MaxFormulas, n) : n \in 0..MaxRefs}
    IN  UNION {[1..n -> [refs : RefLists, raises : BOOLEAN]] :
                 n \in 1..MaxFormulas}

----------------------------------------------------------------------------
(* The operations as steps of a caller.                                    *)

DesignFilter ==
    /\ call' = Called("design_filter",
                      [fs |-> fs, fc |-> input.fc, order |-> input.order,
                       filter_type |-> input.filter_type,
                       design |-> input.design, fc_high |-> input.fc_high,
                       ripple |-> input.ripple],
                      design_filter(fs, input.fc, input.order,
                                    input.filter_type, input.design,
                                    input.fc_high, input.ripple))
    /\ UNCHANGED <<data, fs, b, a, input, prev, gui>>

PerformFft ==
    /\ call' = Called("perform_fft", [data |-> data, fs |-> fs],
                      perform_fft(data, fs))
    /\ UNCHANGED <<data, fs, b, a, input, prev, gui>>

FindResonance ==
    /\ call' = Called("find_resonance",
                      [frequencies |-> input.frequencies, psd |-> input.psd,
                       round_to |-> input.round_to],
                      find_resonance(input.frequencies, input.psd,
                                     input.round_to))
    /\ UNCHANGED <<data, fs, b, a, input, prev, gui>>

ApplyFilter ==
    /\ call' = Called("apply_filter", [data |-> data, b |-> b, a |-> a],
                      apply_filter(data, b, a))
    /\ prev' = [valid |-> TRUE,
                repeated |-> prev.valid /\ call.op # "apply_filter",
                args |-> call'.args,
                status |-> call'.status, result |-> call'.result]
    /\ UNCHANGED <<data, fs, b, a, input, gui>>

FindTopPeaks ==
    /\ \E sorted \in ArgSorts(input.psd) :
         call' = Called("find_top_peaks",
                        [frequencies |-> input.frequencies, psd |-> input.psd,
                         n_peaks |-> input.n_peaks],
                        find_top_peaks(input.frequencies, input.psd,
                                       input.n_peaks, sorted))
    /\ UNCHANGED <<data, fs, b, a, input, prev, gui>>

GetFilterResponse ==
    /\ call' = Called("get_filter_response",
                      [b |-> b, a |-> a, fs |-> fs, worN |-> input.worN],
                      get_filter_response(b, a, fs, input.worN))
    /\ UNCHANGED <<data, fs, b, a, input, prev, gui>>

ComputeStatistics ==
    /\ call' = Called("compute_statistics", [data |-> data, fs |-> fs],
                      compute_statistics(data, fs))
    /\ data' = OperandAfterSquare(data)
    /\ UNCHANGED <<fs, b, a, input, prev, gui>>

DetectPeaks ==
    /\ \E orders \in DetectOrders(data, fs, input.height_ratio,
                                  input.distance) :
         call' = Called("detect_peaks",
                        [data |-> data, fs |-> fs,
                         height_ratio |-> input.height_ratio,
                         distance |-> input.distance,
                         n_peaks |-> input.n_detect],
                        detect_peaks(data, fs, input.height_ratio,
                                     input.distance, input.n_detect,
                                     orders[1], orders[2]))
    /\ UNCHANGED <<data, fs, b, a, input, prev, gui>>

\* The peak-picking step of detect_peaks (lines 223-232) on the magnitudes
\* of a buffer of 2 * Len(fft_result) samples.
PickPeaks ==
    /\ \E orders \in PickOrders(input.fft_result, input.height_ratio,
                                input.distance) :
         call' = Called("pick_peaks",
                        [fft_result |-> input.fft_result, fs |-> fs,
                         height_ratio |-> input.height_ratio,
                         distance |-> input.distance,
                         n_peaks |-> input.n_detect],
                        pick_peaks(input.fft_result,
                                   SubSeq(FftFreq(2 * Len(input.fft_result), fs),
                                          1, Len(input.fft_result)),
                                   input.height_ratio, input.distance,
                                   input.n_detect, orders[1], orders[2]))
    /\ UNCHANGED <<data, fs, b, a, input, prev, gui>>

ComputeRmsWindowed ==
    /\ call' = Called("compute_rms_windowed",
                      [data |-> data, fs |-> fs,
                       window_seconds |-> input.window_seconds],
                      compute_rms_windowed(data, fs, input.window_seconds))
    /\ data' = OperandAfterSquare(data)
    /\ UNCHANGED <<fs, b, a, input, prev, gui>>

\* The user presses "Apply Filter": one run of FilterTab.apply_filter on
\* app.data with whatever the entries hold.
FilterTabApplyFilter ==
    /\ gui.run < MaxRuns
    /\ \E entries \in GuiEntries,
          fault \in {"none", "plot", "tempfile", "write_html"} :
          gui' = FilterTab_apply_filter(gui, data, fs, entries, fault)
    /\ UNCHANGED <<data, fs, b, a, input, call, prev>>

\* One calculate call on the sheet's formulas.
Calculate ==
    /\ call = NoCall
    /\ call' = Called("calculate", [formulas |-> input.formulas],
                      calculate(input.formulas))
    /\ UNCHANGED <<data, fs, b, a, input, prev, gui>>

\* get_si_unit on the caller's unit.
GetSiUnit ==
    /\ call = NoCall
    /\ call' = Called("get_si_unit", [unit |-> input.unit],
                      get_si_unit(input.unit))
    /\ UNCHANGED <<data, fs, b, a, input, prev, gui>>

\* convert(value, unit, get_si_unit(unit)) with the unit just obtained.
ConvertToSiUnit ==
    /\ call.op = "get_si_unit" /\ call.status = "ok"
    /\ call' = Called("convert",
                      [value |-> input.value, from_unit |-> input.unit,
                       to_unit |-> call.result],
                      convert(input.value, input.unit, call.result))
    /\ UNCHANGED <<data, fs, b, a, input, prev, gui>>

----------------------------------------------------------------------------
(* Specifications.                                                         *)

\* An analysis session: the caller holds a buffer, a sampling frequency
\* and a coefficient pair, and calls the operations in any order.
SessionBuffers ==
    {<<>>, <<0, 0>>, <<1, 0, -1>>, <<1, -1, 1, 0>>,
     <<0, 1, 0, 1, 1, 0, 0, 1, 0, 0, 0, -1>>,
     <<1, 1, 0, 0, 0, 0, -1, 0, 0, 1, 0, 0>>}
SessionCoeffs == {<< <<1, 1>>, <<1>> >>, << <<0, 1>>, <<1, -1, 1>> >>}
SessionInputs ==
    {[BaseInput EXCEPT !.filter_type = t, !.n_peaks = n] :
        t \in {"lowpass", "bandpass"}, n \in {0, 2}}

Init ==
    /\ data \in SessionBuffers
    /\ fs \in FsValues
    /\ \E p \in SessionCoeffs : b = p[1] /\ a = p[2]
    /\ input \in SessionInputs
    /\ call = NoCall
    /\ prev = NoPrev
    /\ gui = NewFilterTab

Next ==
    \/ PerformFft
    \/ FindResonance
    \/ FindTopPeaks
    \/ DesignFilter
    \/ ApplyFilter
    \/ GetFilterResponse
    \/ ComputeStatistics
    \/ DetectPeaks
    \/ ComputeRmsWindowed

Spec == Init /\ [][Next]_vars

\* design_filter over every combination of its arguments.
InitDesign ==
    /\ data = <<>>
    /\ fs \in FsValues
    /\ b = <<1>>
    /\ a = <<1>>
    /\ input \in DesignInputs
    /\ call = NoCall
    /\ prev = NoPrev
    /\ gui = NewFilterTab

SpecDesign == InitDesign /\ [][DesignFilter]_vars

\* perform_fft over every buffer and sampling frequency.
InitFft ==
    /\ data \in Buffers
    /\ fs \in FsValues
    /\ b = <<1>>
    /\ a = <<1>>
    /\ input = BaseInput
    /\ call = NoCall
    /\ prev = NoPrev
    /\ gui = NewFilterTab

SpecFft == InitFft /\ [][PerformFft]_vars

\* apply_filter over every buffer and coefficient pair.
InitFilter ==
    /\ data \in FilterBuffers
    /\ fs = 6
    /\ \E p \in CoeffPairs : b = p[1] /\ a = p[2]
    /\ input = BaseInput
    /\ call = NoCall
    /\ prev = NoPrev
    /\ gui = NewFilterTab

SpecFilter == InitFilter /\ [][ApplyFilter]_vars

\* find_resonance over every spectrum.
InitResonance ==
    /\ data = <<>>
    /\ fs = 6
    /\ b = <<1>>
    /\ a = <<1>>
    /\ input \in ResonanceInputs
    /\ call = NoCall
    /\ prev = NoPrev
    /\ gui = NewFilterTab

SpecResonance == InitResonance /\ [][FindResonance]_vars

\* find_top_peaks over every spectrum and requested count.
InitTopPeaks ==
    /\ data = <<>>
    /\ fs = 6
    /\ b = <<1>>
    /\ a = <<1>>
    /\ input \in TopPeaksInputs
    /\ call = NoCall
    /\ prev = NoPrev
    /\ gui = NewFilterTab

SpecTopPeaks == InitTopPeaks /\ [][FindTopPeaks]_vars

\* detect_peaks over every buffer, sampling frequency, height ratio,
\* distance and requested count.
InitDetect ==
    /\ data \in DetectBuffers
    /\ fs \in FsValues
    /\ b = <<1>>
    /\ a = <<1>>
    /\ input \in DetectInputs
    /\ call = NoCall
    /\ prev = NoPrev
    /\ gui = NewFilterTab

SpecDetect == InitDetect /\ [][DetectPeaks]_vars

\* The peak-picking step of detect_peaks over every spectrum, height
\* ratio, distance and requested count.
InitPick ==
    /\ data = <<>>
    /\ fs = 6
    /\ b = <<1>>
    /\ a = <<1>>
    /\ input \in PickInputs
    /\ call = NoCall
    /\ prev = NoPrev
    /\ gui = NewFilterTab

SpecPick == InitPick /\ [][PickPeaks]_vars

\* compute_rms_windowed over every buffer, sampling frequency and window
\* length.
InitWindowed ==
    /\ data \in WindowedBuffers
    /\ fs \in FsValues
    /\ b = <<1>>
    /\ a = <<1>>
    /\ input \in WindowedInputs
    /\ call = NoCall
    /\ prev = NoPrev
    /\ gui = NewFilterTab

SpecWindowed == InitWindowed /\ [][ComputeRmsWindowed]_vars

\* compute_statistics over every buffer and sampling frequency.
InitStatistics ==
    /\ data \in StatisticsBuffers
    /\ fs \in FsValues
    /\ b = <<1>>
    /\ a = <<1>>
    /\ input = BaseInput
    /\ call = NoCall
    /\ prev = NoPrev
    /\ gui = NewFilterTab

SpecStatistics == InitStatistics /\ [][ComputeStatistics]_vars

\* get_filter_response over every coefficient pair, sampling frequency
\* and number of points.
InitResponse ==
    /\ data = <<>>
    /\ fs \in FsValues
    /\ \E p \in CoeffPairs : b = p[1] /\ a = p[2]
    /\ input \in ResponseInputs
    /\ call = NoCall
    /\ prev = NoPrev
    /\ gui = NewFilterTab

SpecResponse == InitResponse /\ [][GetFilterResponse]_vars

\* The Filter tab: Apply Filter pressed repeatedly, with or without a
\* loaded buffer, whatever the entries hold.  The buffer is too short for
\* the band-pass filter's padding (7 samples) or long enough for every
\* filter (12 samples).
InitFilterTab ==
    /\ data \in {[i \in 1..n |-> IF i % 2 = 0 THEN 1 ELSE 0] : n \in {7, 12}}
    /\ fs \in FsValues
    /\ b = <<1>> /\ a = <<1>>
    /\ input = BaseInput
    /\ call = NoCall
    /\ prev = NoPrev
    /\ gui \in {[NewFilterTab EXCEPT !.loaded = l] : l \in BOOLEAN}

SpecFilterTab == InitFilterTab /\ [][FilterTabApplyFilter]_vars

\* The formula engine: calculate on every sheet of FormulaSets.
InitCalculate ==
    /\ data = <<>>
    /\ fs = 6
    /\ b = <<1>> /\ a = <<1>>
    /\ input \in {[formulas |-> F] : F \in FormulaSets}
    /\ call = NoCall
    /\ prev = NoPrev
    /\ gui = NewFilterTab

SpecCalculate == InitCalculate /\ [][Calculate]_vars

\* The unit converter: the SI unit of every key of UNIT_DEFINITIONS and of
\* a symbol that is not defined, then the conversion of a value to it.
InitUnits ==
    /\ data = <<>>
    /\ fs = 6
    /\ b = <<1>> /\ a = <<1>>
    /\ input \in {[unit |-> u, value |-> v] :
                     u \in UnitSymbols \cup {"furlong"}, v \in Samples}
    /\ call = NoCall
    /\ prev = NoPrev
    /\ gui = NewFilterTab

SpecUnits == InitUnits /\ [][GetSiUnit \/ ConvertToSiUnit]_vars

----------------------------------------------------------------------------
(* Claims on the Filter Designer (checked under SpecDesign).               *)

IsDesign == call.op = "design_filter"

\* n/d lies strictly inside (0, 1); false when d = 0 (no quotient).
InsideUnit(n, d) ==
    \/ d > 0 /\ 0 < n /\ n < d
    \/ d < 0 /\ n < 0 /\ n > d

\* The cutoffs design_filter normalizes: fc, and for a band response the
\* high cutoff it is given or derives.
CutoffsOf(args) ==
    IF args.filter_type \in BandTypes
      THEN {args.fc, IF args.fc_high = None THEN 2 * args.fc
                     ELSE args.fc_high[1]}
      ELSE {args.fc}

ValidFamilyOrderRipple(args) ==
    /\ args.design \in {"butter", "cheby1", "bessel"}
    /\ args.order >= 1
    /\ args.ripple > 0

C3_UnknownFamilyFails ==
    (IsDesign /\ call.args.design \notin {"butter", "cheby1", "bessel"})
      => call.status = "error" /\ call.result = <<>>

\* C3 witness: an unknown family with cutoffs, order and ripple all valid.
C3_Witness ==
    /\ IsDesign
    /\ call.args.design = "ellip"
    /\ \A c \in CutoffsOf(call.args) : InsideUnit(2 * c, call.args.fs)
    /\ call.args.filter_type \in BandTypes
    /\ call.args.fc_high # None
    /\ call.args.fc < call.args.fc_high[1]
    /\ call.args.order >= 1
    /\ call.args.ripple > 0
    /\ call.error = "ValueError: Unknown filter design"

\* The effective band of a call: fc, and the high cutoff supplied or
\* derived.
BandOf(args) ==
    <<args.fc, IF args.fc_high = None THEN 2 * args.fc ELSE args.fc_high[1]>>

\* C26 as stated: a band response returns coefficients only when
\* 0 < fc_low < fc_high < fs/2 holds for the effective pair, and a call
\* with fc_high <= fc_low fails.  Violated with a negative fs: negative
\* cutoffs then normalize into (0, 1) and coefficients are returned for a
\* band below 0 Hz.
C26_Original ==
    (IsDesign /\ call.args.filter_type \in BandTypes)
      => /\ call.status = "ok"
           => /\ 0 < BandOf(call.args)[1]
              /\ BandOf(call.args)[1] < BandOf(call.args)[2]
              /\ 2 * BandOf(call.args)[2] < call.args.fs
         /\ BandOf(call.args)[2] <= BandOf(call.args)[1]
           => call.status = "error"

----------------------------------------------------------------------------
(* Claims on perform_fft (checked under SpecFft).                          *)

IsFft == call.op = "perform_fft"
FftN == Len(call.args.data)

\* |X[k]|^2 from the autocorrelation of x:
\* sum_m x[m]^2 + sum_{m<n} x[m]*x[n]*2*cos(2*pi*k*(n-m)/N).
DftPower(x, k) ==
    LET N == Len(x)
        term(m, n) == SScale(x[m] * x[n], TwoCos12(Angle12(N, k * (n - m))))
        row(m) == SSumTo([n \in 1..N |-> IF m < n THEN term(m, n) ELSE SZero], N)
        squares == SSumTo([m \in 1..N |-> SInt(x[m] * x[m])], N)
    IN  SAdd(squares, SSumTo([m \in 1..N |-> row(m)], N))

\* C6 as stated: the three sequences have the common length floor(N/2).
C6_Original ==
    (IsFft /\ FftN >= 1 /\ call.args.fs > 0)
      => /\ call.status = "ok"
         /\ Len(call.result.frequencies) = FftN \div 2
         /\ Len(call.result.magnitude) = FftN \div 2
         /\ Len(call.result.psd) = FftN \div 2

\* C6 amended: for N >= 1 and fs > 0 the three sequences have the common
\* length ceil(N/2) - 1, which is floor(N/2) for odd N and N/2 - 1 for
\* even N.
C6_LengthCeilMinusOne ==
    (IsFft /\ FftN >= 1 /\ call.args.fs > 0)
      => /\ call.status = "ok"
         /\ Len(call.result.frequencies) = (FftN + 1) \div 2 - 1
         /\ Len(call.result.magnitude) = (FftN + 1) \div 2 - 1
         /\ Len(call.result.psd) = (FftN + 1) \div 2 - 1
         /\ (FftN % 2 = 1 => Len(call.result.psd) = FftN \div 2)
         /\ (FftN % 2 = 0 => Len(call.result.psd) = FftN \div 2 - 1)

\* C6 witness: an even N with a non-empty result.
C6_Witness ==
    /\ IsFft /\ call.status = "ok" /\ call.args.fs > 0
    /\ FftN = 12
    /\ Len(call.result.psd) = 5

\* C7: for N >= 1 and fs > 0 the frequencies are k*fs/N for
\* k = 1 .. ceil(N/2)-1 in increasing order (no DC bin, no bin N/2), and
\* magnitude[i] is the DFT magnitude of the bin of frequencies[i].
C7_PositiveGrid ==
    (IsFft /\ FftN >= 1 /\ call.args.fs > 0)
      => /\ call.status = "ok"
         /\ DOMAIN call.result.frequencies = 1..((FftN + 1) \div 2 - 1)
         /\ DOMAIN call.result.magnitude = DOMAIN call.result.frequencies
         /\ \A i \in DOMAIN call.result.frequencies :
              /\ RatEq(call.result.frequencies[i], <<i * call.args.fs, FftN>>)
              /\ RatGt0(call.result.frequencies[i])
              /\ 2 * i < FftN
              /\ i > 1 => RatLt(call.result.frequencies[i - 1],
                                call.result.frequencies[i])
              /\ call.result.magnitude[i].sq = DftPower(call.args.data, i)

\* C7 witness: twelve samples whose positive bins differ from one another.
C7_Witness ==
    /\ IsFft /\ call.status = "ok" /\ call.args.fs > 0
    /\ FftN = 12
    /\ call.result.magnitude[1].sq # call.result.magnitude[2].sq
    /\ call.result.magnitude[2].sq # call.result.magnitude[3].sq
    /\ call.result.magnitude[1].sq[2] # 0

\* C8: psd[i] is magnitude[i] squared, for every index of the result.
C8_PsdIsMagnitudeSquared ==
    (IsFft /\ call.status = "ok")
      => /\ DOMAIN call.result.psd = DOMAIN call.result.magnitude
         /\ \A i \in DOMAIN call.result.psd :
              call.result.psd[i] = call.result.magnitude[i].sq

\* C8 witness: a bin whose power is neither 0 nor 1.
C8_Witness ==
    /\ IsFft /\ call.status = "ok"
    /\ \E i \in DOMAIN call.result.psd :
         SLt(SInt(1), call.result.magnitude[i].sq)

\* C9 as stated: perform_fft fails whenever fs <= 0 or data is empty.
C9_Original ==
    (IsFft /\ (call.args.fs <= 0 \/ FftN = 0))
      => call.status = "error"

----------------------------------------------------------------------------
(* Claims on apply_filter (checked under SpecFilter).                      *)

IsApply == call.op = "apply_filter"

\* The padding of the forward-backward method: 3 * max(len(a), len(b)).
PadLen(args) ==
    3 * (IF Len(args.a) >= Len(args.b) THEN Len(args.a) ELSE Len(args.b))

\* C4: apply_filter never truncates silently: it fails when len(data) is
\* not larger than 3 * max(len(a), len(b)), and a buffer it returns has
\* exactly len(data) samples.
C4_FailsOrKeepsLength ==
    IsApply =>
      /\ call.status \in {"ok", "error"}
      /\ Len(call.args.data) <= PadLen(call.args) => call.status = "error"
      /\ call.status = "ok" => Len(call.result) = Len(call.args.data)

\* C4 witness: a buffer one sample longer than the padding, filtered to a
\* buffer of its own length that differs from it.
C4_Witness ==
    /\ IsApply
    /\ Len(call.args.data) = PadLen(call.args) + 1
    /\ call.status = "ok"
    /\ Len(call.result) = Len(call.args.data)
    /\ call.result # call.args.data

----------------------------------------------------------------------------
(* Claims on find_resonance (checked under SpecResonance).                 *)

IsResonance == call.op = "find_resonance"

\* i is the smallest index at which psd attains its maximum.
FirstMaximum(psd, i) ==
    /\ i \in DOMAIN psd
    /\ \A j \in DOMAIN psd : SLe(psd[j], psd[i])
    /\ \A j \in 1..(i - 1) : SLt(psd[j], psd[i])

\* C10: for a non-empty psd and frequencies of the same length, the first
\* component find_resonance returns is frequencies[i] for the smallest
\* index i at which psd attains its maximum.
C10_ExactIsFirstArgmax ==
    (IsResonance /\ Len(call.args.psd) >= 1
        /\ Len(call.args.frequencies) = Len(call.args.psd)
        /\ call.args.round_to # 0)
      => /\ call.status = "ok"
         /\ \E i \in DOMAIN call.args.psd :
              /\ FirstMaximum(call.args.psd, i)
              /\ call.result.exact = call.args.frequencies[i]

\* C10 witness: the maximum is attained twice, not at the first bin, and
\* the two bins have different frequencies.
C10_Witness ==
    /\ IsResonance /\ call.status = "ok"
    /\ Len(call.args.frequencies) = Len(call.args.psd)
    /\ \E i, j \in DOMAIN call.args.psd :
         /\ 1 < i /\ i < j
         /\ FirstMaximum(call.args.psd, i)
         /\ call.args.psd[j] = call.args.psd[i]
         /\ ~RatEq(call.args.frequencies[i], call.args.frequencies[j])
         /\ call.result.exact = call.args.frequencies[i]

\* C11: for a non-empty psd, frequencies of the same length and
\* round_to > 0, find_resonance returns, and its second component is an
\* integer multiple of round_to with |rounded - exact| <= round_to / 2, so
\* no other multiple of round_to is strictly closer to the exact value.
C11_RoundedIsNearestMultiple ==
    (IsResonance /\ Len(call.args.psd) >= 1
        /\ Len(call.args.frequencies) = Len(call.args.psd)
        /\ call.args.round_to > 0)
      => /\ call.status = "ok"
         /\ LET r == call.args.round_to
                n == call.result.exact[1]
                d == call.result.exact[2]
                rounded == call.result.rounded
            IN  /\ rounded % r = 0
                /\ 2 * Abs(rounded * d - n) <= r * Abs(d)
                /\ \A m \in ((rounded \div r) - 2)..((rounded \div r) + 2) :
                     Abs(rounded * d - n) <= Abs(m * r * d - n)

\* C11 witness: the exact resonance is not a multiple of round_to and lies
\* in the upper half of its interval, so the rounded value is above it.
C11_Witness ==
    /\ IsResonance /\ call.status = "ok"
    /\ call.args.round_to > 0
    /\ Len(call.args.frequencies) = Len(call.args.psd)
    /\ call.result.rounded * call.result.exact[2] > call.result.exact[1]
    /\ call.result.rounded # 0

\* C12: find_resonance called with an empty psd fails, whatever the
\* frequencies and round_to are, and so returns no (exact, rounded) pair.
C12_EmptyPsdFails ==
    (IsResonance /\ Len(call.args.psd) = 0)
      => (call.status = "error" /\ call.result = <<>>)

\* C12 witness: an empty psd with a non-empty frequency array and a
\* positive round_to was rejected.
C12_Witness ==
    /\ IsResonance /\ Len(call.args.psd) = 0
    /\ Len(call.args.frequencies) > 0
    /\ call.args.round_to > 0
    /\ call.status = "error"

----------------------------------------------------------------------------
(* Claims on find_top_peaks (checked under SpecTopPeaks).                  *)

IsTopPeaks == call.op = "find_top_peaks"

\* psd and frequencies have the same length, as perform_fft returns them.
SameLength == Len(call.args.frequencies) = Len(call.args.psd)

\* C13 as stated: for every n >= 0 the call returns exactly min(n, L)
\* pairs.  Violated at n = 0 with a non-empty psd, where the slice [-0:]
\* keeps every index and all L pairs are returned.
C13_Original ==
    (IsTopPeaks /\ SameLength /\ call.args.n_peaks >= 0)
      => /\ call.status = "ok"
         /\ Len(call.result) =
              (IF call.args.n_peaks < Len(call.args.psd)
                 THEN call.args.n_peaks ELSE Len(call.args.psd))

\* idx lists n pairwise distinct bins of psd.
DistinctBins(idx, n, psd) ==
    /\ idx \in [1..n -> DOMAIN psd]
    /\ \A i, j \in 1..n : i # j => idx[i] # idx[j]

\* C14: for 1 <= n <= len(psd), find_top_peaks returns the pairs
\* (frequencies[idx], psd[idx]) of n pairwise distinct bins, psd
\* non-increasing, and every bin not returned has a psd <= the smallest
\* psd returned.
C14_TopPeaksAreLargest ==
    (IsTopPeaks /\ SameLength /\ 1 <= call.args.n_peaks
        /\ call.args.n_peaks <= Len(call.args.psd))
      => /\ call.status = "ok"
         /\ LET n == call.args.n_peaks
                psd == call.args.psd
                frequencies == call.args.frequencies
            IN  /\ Len(call.result) = n
                /\ \E idx \in [1..n -> DOMAIN psd] :
                     /\ DistinctBins(idx, n, psd)
                     /\ \A i \in 1..n :
                          call.result[i] = <<frequencies[idx[i]], psd[idx[i]]>>
                     /\ \A i \in 1..(n - 1) : SLe(psd[idx[i + 1]], psd[idx[i]])
                     /\ \A j \in DOMAIN psd :
                          (\A i \in 1..n : idx[i] # j)
                            => SLe(psd[j], psd[idx[n]])

\* C14 witness: two of three bins were returned, the larger first, and
\* the bin left out is strictly smaller than both and is not the last.
C14_Witness ==
    /\ IsTopPeaks /\ SameLength /\ call.status = "ok"
    /\ call.args.n_peaks = 2
    /\ Len(call.args.psd) = 3
    /\ SLt(call.result[2][2], call.result[1][2])
    /\ \E j \in 1..2 : SLt(call.args.psd[j], call.result[2][2])

\* The index order a stable ascending sort gives: equal keys stay in
\* index order.
StableOrder(keys) ==
    CHOOSE f \in ArgSorts(keys) :
        \A i \in 1..(Len(keys) - 1) :
            keys[f[i]] = keys[f[i + 1]] => f[i] < f[i + 1]

\* C24 as stated: the sort is stable, so the result is the one a stable
\* ascending sort gives: tied bins with the higher index first, and the
\* higher-index bins kept when a tie straddles the cut.  Violated: argsort
\* is called with its default kind, which is not a stable sort, so the
\* order of tied bins is the implementation's.
C24_Original ==
    (IsTopPeaks /\ SameLength /\ call.status = "ok")
      => call.result =
           find_top_peaks(call.args.frequencies, call.args.psd,
                          call.args.n_peaks,
                          StableOrder(call.args.psd)).result

----------------------------------------------------------------------------
(* Claims on detect_peaks (checked under SpecDetect).                      *)

IsDetect == call.op = "detect_peaks"

\* The arguments for which C15 and C16 speak, with at least two samples
\* (a shorter buffer has no one-sided bin and the call fails).
DetectDomain ==
    /\ IsDetect
    /\ Len(call.args.data) >= 2
    /\ call.args.fs > 0
    /\ call.args.distance >= 1
    /\ call.args.n_peaks >= 0

\* The one-sided spectrum of the call's data, and its largest magnitude
\* over all bins, the DC bin included.
SpectrumOf(args) == OneSided(args.data)
LargestOf(x) ==
    CHOOSE t \in Range(x) : \A k \in DOMAIN x : SLe(x[k].sq, t.sq)

\* m >= height_ratio * top, for non-negative magnitudes given by squares.
MeetsHeight(m, top, hr) ==
    \/ hr[1] <= 0
    \/ SLe(SScale(hr[1] * hr[1], top.sq), SScale(hr[2] * hr[2], m.sq))

\* The (1-based) bin whose frequency k * fs / N is f.
BinOfFrequency(f, args) ==
    CHOOSE k \in 1..(Len(args.data) \div 2) :
        RatEq(f, <<(k - 1) * args.fs, Len(args.data)>>)

\* The bins of the returned peaks, in the order returned.
ReturnedBins ==
    [i \in DOMAIN call.result.frequencies |->
        BinOfFrequency(call.result.frequencies[i], call.args)]

\* The sets of peaks find_peaks can keep for the call's arguments: the
\* local maxima that pass the height test and survive the distance rule.
QualifyingSets(args) ==
    LET x == SpectrumOf(args)
        top == LargestOf(x)
        cand == PeakCandidates(x, top, args.height_ratio)
    IN  {Range(FindPeaks(x, top, args.height_ratio, args.distance, o)) :
            o \in ArgSorts([i \in DOMAIN cand |-> x[cand[i]].sq])}

\* C15: for at least two samples, fs > 0, distance >= 1 and n_peaks >= 0,
\* detect_peaks returns at most n_peaks (frequency, magnitude) pairs,
\* magnitudes non-increasing, each the magnitude of its bin and >=
\* height_ratio times the largest one-sided magnitude (DC included); the
\* pairs are min(n_peaks, number of qualifying peaks) qualifying peaks and
\* no qualifying peak left out is larger than the smallest one returned.
C15_TopQualifyingPeaks ==
    DetectDomain
      => /\ call.status = "ok"
         /\ LET x == SpectrumOf(call.args)
                top == LargestOf(x)
                mg == call.result.magnitudes
                m == Len(mg)
            IN  /\ Len(call.result.frequencies) = m
                /\ m <= call.args.n_peaks
                /\ \A i \in 1..(m - 1) : ~MagLt(mg[i], mg[i + 1])
                /\ \A i \in 1..m :
                     /\ \E k \in DOMAIN x :
                          RatEq(call.result.frequencies[i],
                                <<(k - 1) * call.args.fs, Len(call.args.data)>>)
                     /\ mg[i] = x[ReturnedBins[i]]
                     /\ MeetsHeight(mg[i], top, call.args.height_ratio)
                /\ \E found \in QualifyingSets(call.args) :
                     /\ Range(ReturnedBins) \subseteq found
                     /\ \A i, j \in 1..m : i # j => ReturnedBins[i] # ReturnedBins[j]
                     /\ m = (IF call.args.n_peaks < Cardinality(found)
                               THEN call.args.n_peaks ELSE Cardinality(found))
                     /\ \A q \in found \ Range(ReturnedBins) :
                          m >= 1 => ~MagLt(mg[m], x[q])

\* C15 witness: one peak was asked for and returned, with height ratio
\* 1/2, while a second, smaller peak also met the height and lies far
\* enough from it to survive the distance rule.
C15_Witness ==
    /\ DetectDomain /\ call.status = "ok"
    /\ call.args.n_peaks = 1
    /\ Len(call.result.magnitudes) = 1
    /\ call.args.height_ratio = <<1, 2>>
    /\ LET x == SpectrumOf(call.args)
       IN  \E q \in 2..(Len(x) - 1) :
             /\ q # ReturnedBins[1]
             /\ MagLt(x[q - 1], x[q]) /\ MagLt(x[q + 1], x[q])
             /\ MagLt(x[q], call.result.magnitudes[1])
             /\ MeetsHeight(x[q], LargestOf(x), call.args.height_ratio)
             /\ Abs(q - ReturnedBins[1]) >= call.args.distance

\* C25 as stated: every bin returned is strictly greater than both of its
\* neighbours, and is neither the first nor the last one-sided bin.
\* Violated by a flat top: find_peaks takes a run of equal magnitudes that
\* rises on the left and falls on the right as one peak, at the middle
\* of the run, whose neighbour inside the run is as large as it is.
C25_Original ==
    (DetectDomain /\ call.status = "ok")
      => LET x == SpectrumOf(call.args)
         IN  \A i \in DOMAIN ReturnedBins :
               LET k == ReturnedBins[i]
               IN  /\ 1 < k /\ k < Len(x)
                   /\ MagLt(x[k - 1], x[k])
                   /\ MagLt(x[k + 1], x[k])

----------------------------------------------------------------------------
(* Claims on the peak-picking step of detect_peaks (checked under          *)
(* SpecPick).                                                              *)

IsPick == call.op = "pick_peaks"

\* The step returned, for a distance find_peaks accepts.
PickDomain == IsPick /\ call.args.distance >= 1 /\ call.status = "ok"

\* The (1-based) bins of the peaks the step returned, in the order
\* returned: bin k has the frequency (k - 1) * fs / N, N = 2 * bins.
PickedBins ==
    [i \in DOMAIN call.result.frequencies |->
        CHOOSE k \in DOMAIN call.args.fft_result :
            RatEq(call.result.frequencies[i],
                  <<(k - 1) * call.args.fs, 2 * Len(call.args.fft_result)>>)]

\* The candidate local maxima: those that pass the height test.
CandidateBins(args) ==
    Range(PeakCandidates(args.fft_result, LargestOf(args.fft_result),
                         args.height_ratio))

\* Any two distinct peaks returned are at least distance bins apart.
ReturnedPeaksApart ==
    \A i, j \in DOMAIN PickedBins :
        i # j => Abs(PickedBins[i] - PickedBins[j]) >= call.args.distance

\* n_peaks does not cut the result short: every peak kept is returned.
AllKeptReturned == call.args.n_peaks >= Cardinality(CandidateBins(call.args))

\* C16 as stated: returned peaks are at least distance apart, and of any
\* two candidates closer than distance the smaller one is suppressed.
\* Violated by three candidates in a row, each closer than distance to the
\* next: the largest suppresses the middle one, which then suppresses
\* nothing, so the smallest is returned although its larger neighbour is
\* closer than distance.
C16_Original ==
    PickDomain
      => /\ ReturnedPeaksApart
         /\ AllKeptReturned
              => \A c1, c2 \in CandidateBins(call.args) :
                   (/\ c1 # c2
                    /\ Abs(c1 - c2) < call.args.distance
                    /\ MagLt(call.args.fft_result[c1], call.args.fft_result[c2]))
                     => c1 \notin Range(PickedBins)

\* C16 (amended): returned peaks are candidates at least distance bins
\* apart, and every candidate suppressed has a returned peak closer than
\* distance to it that is not smaller than it.
C16_SuppressedByKeptLarger ==
    PickDomain
      => /\ ReturnedPeaksApart
         /\ Range(PickedBins) \subseteq CandidateBins(call.args)
         /\ AllKeptReturned
              => \A c \in CandidateBins(call.args) \ Range(PickedBins) :
                   \E k \in Range(PickedBins) :
                     /\ Abs(k - c) < call.args.distance
                     /\ ~MagLt(call.args.fft_result[k], call.args.fft_result[c])

\* C16 witness: three candidates two bins apart with decreasing heights and
\* distance 3: the first and the last were returned, the middle one was
\* suppressed.
C16_Witness ==
    /\ PickDomain /\ AllKeptReturned
    /\ call.args.distance = 3
    /\ CandidateBins(call.args) = {2, 4, 6}
    /\ MagLt(call.args.fft_result[4], call.args.fft_result[2])
    /\ MagLt(call.args.fft_result[6], call.args.fft_result[4])
    /\ Range(PickedBins) = {2, 6}

----------------------------------------------------------------------------
(* Claims on compute_rms_windowed (checked under SpecWindowed).            *)

IsWindowed == call.op = "compute_rms_windowed"

\* floor(fs * window_seconds), and for a negative product the truncation
\* int() makes of it.
WindowSizeOf(args) ==
    LET n == args.fs * args.window_seconds[1]
        d == args.window_seconds[2]
    IN  IF (n >= 0) = (d > 0) THEN Abs(n) \div Abs(d)
        ELSE -(Abs(n) \div Abs(d))

RECURSIVE SumSquares(_, _, _)
\* The sum of d[i]^2 for i in lo..hi.
SumSquares(d, lo, hi) ==
    IF hi < lo THEN 0 ELSE d[hi] * d[hi] + SumSquares(d, lo, hi - 1)

\* v is the square root of the mean square of d[lo..hi].
IsRmsOf(v, d, lo, hi) ==
    /\ v # NaN
    /\ RatEq(v.sq, <<SumSquares(d, lo, hi), hi - lo + 1>>)

\* C17: with window_size = floor(fs * window_seconds) >= 1 the call
\* returns exactly floor(len(data) / window_size) RMS values (and times);
\* value k is the RMS of the samples [k*window_size, (k+1)*window_size),
\* so the windows are contiguous, disjoint and full, and the trailing
\* len(data) mod window_size samples are in no window.
C17_FullContiguousWindows ==
    (IsWindowed /\ WindowSizeOf(call.args) >= 1)
      => /\ call.status = "ok"
         /\ LET w == WindowSizeOf(call.args)
                N == Len(call.args.data)
                n == Len(call.result.rms_values)
            IN  /\ n * w <= N
                /\ N < (n + 1) * w
                /\ Len(call.result.times) = n
                /\ \A k \in 1..n :
                     IsRmsOf(call.result.rms_values[k], call.args.data,
                             (k - 1) * w + 1, k * w)

\* C17 witness: two windows of two samples with different RMS values and
\* a trailing sample that is in neither.
C17_Witness ==
    /\ IsWindowed /\ call.status = "ok"
    /\ WindowSizeOf(call.args) = 2
    /\ Len(call.args.data) = 5
    /\ Len(call.result.rms_values) = 2
    /\ call.result.rms_values[1] # call.result.rms_values[2]
    /\ call.args.data[5] # 0

\* C18: with window_size >= 1 the call returns an overall_rms, also when
\* there is no window, and for a non-empty buffer it is the RMS of all
\* len(data) samples, those after the last window included.
C18_OverallRmsOverAllSamples ==
    (IsWindowed /\ WindowSizeOf(call.args) >= 1)
      => /\ call.status = "ok"
         /\ Len(call.args.data) >= 1
              => IsRmsOf(call.result.overall_rms, call.args.data,
                         1, Len(call.args.data))

\* C18 witness: the only window holds zeros, the trailing sample does not,
\* and the overall RMS is not zero.
C18_Witness ==
    /\ IsWindowed /\ call.status = "ok"
    /\ WindowSizeOf(call.args) = 2
    /\ call.args.data = <<0, 0, 1>>
    /\ call.result.rms_values = <<SqrtOf(0, 2)>>
    /\ call.result.overall_rms = SqrtOf(1, 3)

\* C19 as stated: the call fails whenever window_size < 1.  Violated by a
\* negative window_size (negative fs or window_seconds): the floor
\* division gives no window, the loop does not run and the call returns
\* empty arrays with the overall RMS.
C19_Original ==
    (IsWindowed /\ WindowSizeOf(call.args) < 1) => call.status = "error"

\* C27: times and rms_values have the same length and times[i] is
\* (i + 0.5) * window_size / fs; for fs > 0 the timestamps increase
\* strictly, are window_size / fs apart, and each lies strictly inside
\* the time span of its window and before the end of the signal,
\* len(data) / fs.
C27_TimesAreWindowMidpoints ==
    (IsWindowed /\ call.status = "ok")
      => LET t == call.result.times
             w == WindowSizeOf(call.args)
             f == call.args.fs
             N == Len(call.args.data)
         IN  /\ Len(t) = Len(call.result.rms_values)
             /\ \A k \in DOMAIN t :
                  RatEq(t[k], <<(2 * (k - 1) + 1) * w, 2 * f>>)
             /\ f > 0
                  => /\ \A k \in 1..(Len(t) - 1) :
                          /\ RatLt(t[k], t[k + 1])
                          /\ RatEq(RatMinus(t[k + 1], t[k]), <<w, f>>)
                     /\ \A k \in DOMAIN t :
                          /\ RatLt(<<(k - 1) * w, f>>, t[k])
                          /\ RatLt(t[k], <<k * w, f>>)
                          /\ RatLt(t[k], <<N, f>>)

\* C27 witness: two windows of two samples at fs = 6 with the timestamps
\* 1/6 s and 3/6 s.
C27_Witness ==
    /\ IsWindowed /\ call.status = "ok"
    /\ call.args.fs = 6
    /\ WindowSizeOf(call.args) = 2
    /\ Len(call.args.data) = 4
    /\ Len(call.result.times) = 2
    /\ RatEq(call.result.times[1], <<1, 6>>)
    /\ RatEq(call.result.times[2], <<3, 6>>)

----------------------------------------------------------------------------
(* Claims on compute_statistics (checked under SpecStatistics).            *)

IsStatistics == call.op = "compute_statistics"

\* sum((x - mean)^2) / N as a quotient: sum((N*x - sum)^2) / N^3.
MeanSquaredDeviation(d) ==
    LET N == Len(d)
        sum == SumTo(d, N)
        dev == [i \in 1..N |-> (N * d[i] - sum) * (N * d[i] - sum)]
    IN  <<SumTo(dev, N), N * N * N>>

\* C20: for a non-empty buffer and fs > 0, compute_statistics returns
\* points = N, duration = N / fs, mean = sum / N, std = the root of
\* sum((x - mean)^2) / N (denominator N), the smallest and the largest
\* sample and peak_to_peak = max - min; on [1,2,3,4,5]: mean 3, variance
\* 2, min 1, max 5, peak_to_peak 4.
C20_BasicStatistics ==
    (IsStatistics /\ Len(call.args.data) >= 1 /\ call.args.fs > 0)
      => /\ call.status = "ok"
         /\ LET d == call.args.data
                N == Len(d)
                r == call.result
            IN  /\ r.points = N
                /\ RatEq(r.duration, <<N, call.args.fs>>)
                /\ RatEq(r.mean, <<SumTo(d, N), N>>)
                /\ RatEq(r.std.sq, MeanSquaredDeviation(d))
                /\ r.min \in Range(d) /\ \A i \in 1..N : r.min <= d[i]
                /\ r.max \in Range(d) /\ \A i \in 1..N : d[i] <= r.max
                /\ r.peak_to_peak = r.max - r.min
                /\ d = <<1, 2, 3, 4, 5>>
                     => /\ RatEq(r.mean, <<3, 1>>)
                        /\ RatEq(r.std.sq, <<2, 1>>)
                        /\ r.min = 1 /\ r.max = 5 /\ r.peak_to_peak = 4

\* C20 witness: the statistics of [1,2,3,4,5] were returned, with
\* variance 2.
C20_Witness ==
    /\ IsStatistics /\ call.status = "ok"
    /\ call.args.data = <<1, 2, 3, 4, 5>>
    /\ call.args.fs > 0
    /\ RatEq(call.result.std.sq, <<2, 1>>)
    /\ call.result.peak_to_peak = 4

\* The buffer is all zeros.
AllZero(d) == \A i \in DOMAIN d : d[i] = 0

\* C21: for every non-empty all-zero buffer (and fs # 0) the call returns
\* with crest_factor the NaN marker and the other eight fields present,
\* never an error and never a number; a buffer with a non-zero sample
\* gets a number.
C21_ZeroRmsGivesNaN ==
    (IsStatistics /\ Len(call.args.data) >= 1 /\ call.args.fs # 0)
      => /\ call.status = "ok"
         /\ DOMAIN call.result =
              {"points", "duration", "mean", "std", "rms", "min", "max",
               "peak_to_peak", "crest_factor"}
         /\ AllZero(call.args.data) <=> call.result.crest_factor = NaN
         /\ AllZero(call.args.data)
              => /\ call.result.points = Len(call.args.data)
                 /\ call.result.rms.sq[1] = 0
                 /\ call.result.min = 0 /\ call.result.max = 0

\* C21 witness: an all-zero buffer of three samples returned NaN for
\* crest_factor together with the other fields.
C21_Witness ==
    /\ IsStatistics /\ call.status = "ok"
    /\ Len(call.args.data) = 3
    /\ AllZero(call.args.data)
    /\ call.result.crest_factor = NaN
    /\ call.result.peak_to_peak = 0

----------------------------------------------------------------------------
(* Claims on get_filter_response (checked under SpecResponse).             *)

IsResponse == call.op = "get_filter_response"

\* C22 as stated: n_points frequencies, the first 0, a constant step, the
\* last fs/2.  Violated by every call that returns a point: freqz leaves
\* the Nyquist frequency out, so the last point is below fs/2.
C22_Original ==
    (IsResponse /\ call.args.worN >= 1 /\ call.args.fs > 0)
      => /\ call.status = "ok"
         /\ LET f == call.result.freq_hz
                n == call.args.worN
            IN  /\ Len(f) = n
                /\ RatEq(f[1], <<0, 1>>)
                /\ \A i \in 2..(n - 1) :
                     RatEq(RatMinus(f[i + 1], f[i]), RatMinus(f[i], f[i - 1]))
                /\ RatEq(f[n], <<call.args.fs, 2>>)

\* C22 (amended): n_points frequencies, point i (from 0) is
\* i * fs / (2 * n_points): the first is 0 Hz, the step is the constant
\* (fs/2) / n_points, and the last is (n_points - 1) / n_points * fs/2,
\* one step below the Nyquist frequency.
C22_SpacedBelowNyquist ==
    (IsResponse /\ call.args.worN >= 1 /\ call.args.fs > 0)
      => /\ call.status = "ok"
         /\ LET f == call.result.freq_hz
                n == call.args.worN
            IN  /\ Len(f) = n
                /\ Len(call.result.magnitude_db) = n
                /\ Len(call.result.phase_deg) = n
                /\ RatEq(f[1], <<0, 1>>)
                /\ \A i \in 1..(n - 1) :
                     RatEq(RatMinus(f[i + 1], f[i]), <<call.args.fs, 2 * n>>)
                /\ RatEq(f[n], <<(n - 1) * call.args.fs, 2 * n>>)
                /\ RatLt(f[n], <<call.args.fs, 2>>)

\* C22 witness: three points at fs = 6: 0, 1 and 2 Hz, the Nyquist
\* frequency 3 Hz not among them.
C22_Witness ==
    /\ IsResponse /\ call.status = "ok"
    /\ call.args.worN = 3 /\ call.args.fs = 6
    /\ RatEq(call.result.freq_hz[2], <<1, 1>>)
    /\ RatEq(call.result.freq_hz[3], <<2, 1>>)

----------------------------------------------------------------------------
(* Claims on the whole core (checked under Spec).                          *)

BufferOperations ==
    {"perform_fft", "compute_statistics", "detect_peaks",
     "compute_rms_windowed", "apply_filter"}

\* C23 as stated: every operation that takes a sample buffer fails on an
\* empty one.  Violated by compute_rms_windowed: with a window size other
\* than 0 it finds no window in an empty buffer and returns empty arrays
\* with a NaN overall RMS.  The other four operations fail.
C23_Original ==
    (call.op \in BufferOperations /\ Len(call.args.data) = 0)
      => call.status = "error"

----------------------------------------------------------------------------
(* Claims on the Filter tab (checked under SpecFilterTab).                 *)

\* C28 as stated: a run of FilterTab.apply_filter that fails (the error is
\* caught and shown) leaves filtered_data, app.filtered_data,
\* filter_plot_html and the plot button as they were before the run.
C28_Original ==
    [][(gui'.run = gui.run + 1 /\ gui'.shown = "error")
         => /\ gui'.filtered_data = gui.filtered_data
            /\ gui'.app_filtered_data = gui.app_filtered_data
            /\ gui'.filter_plot_html = gui.filter_plot_html
            /\ gui'.plot_btn = gui.plot_btn]_vars

----------------------------------------------------------------------------
(* Claims on the formula engine (checked under SpecCalculate).             *)

IsCalculate == call.op = "calculate"

\* The position of formula v in the evaluation order, 0 when absent.
PositionIn(trace, v) ==
    IF \E i \in DOMAIN trace : trace[i] = v
      THEN CHOOSE i \in DOMAIN trace : trace[i] = v
      ELSE 0

\* C29 as stated: calculate returns for every set of formulas, cyclic ones
\* included, with one entry per formula, each formula evaluated exactly once
\* and after every formula of the sheet that it references.
C29_Original ==
    IsCalculate =>
      LET F == call.args.formulas
      IN  /\ call.status = "ok"
          /\ \A v \in DOMAIN F : call.result.results[v] # "unset"
          /\ \A v \in DOMAIN F :
                Cardinality({i \in DOMAIN call.result.trace :
                               call.result.trace[i] = v}) = 1
          /\ \A v \in DOMAIN F : \A i \in DOMAIN F[v].refs :
                (F[v].refs[i] \in DOMAIN F /\ F[v].refs[i] # v)
                  => PositionIn(call.result.trace, F[v].refs[i])
                       < PositionIn(call.result.trace, v)

----------------------------------------------------------------------------
(* Claims on the unit converter (checked under SpecUnits).                 *)

\* A definition that is its category's SI base unit.
IsSiBase(def) == def.to_si_factor = "1.0" /\ def.to_si_offset = "0.0"

\* C30 as stated: for every key u of UNIT_DEFINITIONS, get_si_unit(u) is a
\* defined unit of u's category that is the category's SI base unit, and
\* convert(v, u, get_si_unit(u)) does not raise.
C30_Original ==
    /\ (call.op = "get_si_unit" /\ call.args.unit \in DOMAIN UNIT_DEFINITIONS)
          => /\ call.status = "ok"
             /\ call.result \in DOMAIN UNIT_DEFINITIONS
             /\ UNIT_DEFINITIONS[call.result].category
                  = UNIT_DEFINITIONS[call.args.unit].category
             /\ IsSiBase(UNIT_DEFINITIONS[call.result])
    /\ call.op = "convert" => call.status = "ok"

====
